---- MODULE Spec2Model ----
(***************************************************************************)
(* Model of src/src/catalog.cpp (Poedit): Catalog::HeaderData, CatalogItem *)
(* and the Catalog aggregate.                                              *)
(*                                                                         *)
(* Text.  A wxString is a sequence of symbols.  A symbol is either one     *)
(* character ("a", " ", "<", "\n", ...) or a word: a run of ordinary       *)
(* characters (letters, digits, '-', '.', '=', '@') written as one string  *)
(* of several characters, such as "Project-Id-Version".  No operation of   *)
(* the code modelled here looks inside such a run: every search, strip,   *)
(* split and escape below matches only the single-character symbols.       *)
(***************************************************************************)
EXTENDS Integers, Sequences, FiniteSets, TLC

VARIABLES
    header,     \* the Catalog::HeaderData object: derived fields and m_entries
    header0,    \* the HeaderData as it was constructed (before any call)
    headerPre,  \* the HeaderData before the last call
    calls,      \* the calls made on the HeaderData so far, in order
    wire,       \* the text last returned by ToString
    item,       \* one CatalogItem
    itemPre,    \* the CatalogItem before the last call
    itemOp,     \* the last call made on the CatalogItem
    m_items,    \* Catalog::m_items
    catPre,     \* Catalog::m_items before the last call
    catOp,      \* the last call made on the Catalog
    catArg,     \* the argument of the last call made on the Catalog
    catRet,     \* the value returned by the last call made on the Catalog
    flagItem,   \* the fuzzy flag and the extra flags of a CatalogItem
    flagPre,    \* the same before the last call
    flagOp,     \* the last call made on it
    flagArg,    \* the argument of the last call
    flagRet,    \* the value returned by the last call
    sideItems,  \* the items of the catalog that sideloads, with their overlays
    m_sideloaded, \* Catalog::m_sideloaded: <<>> when reset, else <<data>>
    sidePre,    \* sideItems before the last call
    sideOp,     \* the last sideload call made on the catalog
    sideRef,    \* the reference catalog given to the last call
    postCat,    \* the catalog PostCreation runs on
    postPre,    \* the same before the last call
    postOp,     \* the last call made on it
    detected,   \* the texts given to Language::TryDetectFromText by the last call
    srcCat,     \* the catalog whose sources are looked for: file name and header
    srcDisk,    \* the directories and files that exist, the user's directories
    srcOp,      \* the last call made on srcCat
    srcRet      \* the value returned by the last call

headerVars == <<header, header0, headerPre, calls, wire>>
itemVars == <<item, itemPre, itemOp>>
catVars == <<m_items, catPre, catOp, catArg, catRet>>
flagVars == <<flagItem, flagPre, flagOp, flagArg, flagRet>>
sideVars == <<sideItems, m_sideloaded, sidePre, sideOp, sideRef>>
postVars == <<postCat, postPre, postOp, detected>>
srcVars == <<srcCat, srcDisk, srcOp, srcRet>>
vars == <<headerVars, itemVars, catVars, flagVars, sideVars, postVars, srcVars>>

----------------------------------------------------------------------------
(* wxString helpers, as used by catalog.cpp *)

\* wxIsspace
IsSpace(c) == c \in {" ", "\t", "\n", "\r"}

RECURSIVE StripLeading(_)
StripLeading(s) ==
    IF s # <<>> /\ IsSpace(Head(s)) THEN StripLeading(Tail(s)) ELSE s

RECURSIVE StripTrailing(_)
StripTrailing(s) ==
    IF s # <<>> /\ IsSpace(s[Len(s)])
    THEN StripTrailing(SubSeq(s, 1, Len(s) - 1))
    ELSE s

\* wxString::Strip(wxString::both)
Strip(s) == StripLeading(StripTrailing(s))

\* s.substr(pos), pos counted from 0
Mid(s, pos) == SubSeq(s, pos + 1, Len(s))

\* wxString::Find / find: 0-based position of the first occurrence, -1 if none
FindFrom(s, p) ==
    LET hits == {i \in 0..(Len(s) - Len(p)) : SubSeq(s, i + 1, i + Len(p)) = p}
    IN  IF hits = {} THEN -1 ELSE CHOOSE i \in hits : \A j \in hits : i <= j

\* The pieces of s between the characters of delims (n delimiters, n+1 pieces)
RECURSIVE Split(_, _)
Split(s, delims) ==
    LET cut == {i \in 1..Len(s) : s[i] \in delims}
    IN  IF cut = {} THEN <<s>>
        ELSE LET i == CHOOSE k \in cut : \A j \in cut : k <= j
             IN  <<SubSeq(s, 1, i - 1)>> \o Split(SubSeq(s, i + 1, Len(s)), delims)

RECURSIVE DropTrailingEmpty(_)
DropTrailingEmpty(ts) ==
    IF ts # <<>> /\ ts[Len(ts)] = <<>>
    THEN DropTrailingEmpty(SubSeq(ts, 1, Len(ts) - 1))
    ELSE ts

\* wxStringTokenizer(s, delims) with delimiters that are not white space
\* (wxTOKEN_RET_EMPTY): empty tokens are returned, except those after the
\* last character that is no delimiter; a string of delimiters alone gives
\* the one initial empty token.
Tokenize(s, delims) ==
    IF \A i \in 1..Len(s) : s[i] \in delims
    THEN (IF s = <<>> THEN <<>> ELSE << <<>> >>)
    ELSE DropTrailingEmpty(Split(s, delims))

\* wxStringTokenizer(s, "\n"): white-space delimiters (wxTOKEN_STRTOK),
\* empty tokens are never returned.
TokenizeLines(s) == SelectSeq(Split(s, {"\n"}), LAMBDA t : t # <<>>)

\* the concatenation of the strings of ss
RECURSIVE Flatten(_)
Flatten(ss) ==
    IF Len(ss) = 0 THEN <<>>
    ELSE IF Len(ss) = 1 THEN ss[1]
    ELSE LET half == Len(ss) \div 2
         IN  Flatten(SubSeq(ss, 1, half)) \o Flatten(SubSeq(ss, half + 1, Len(ss)))

\* EscapeCString (str_helpers.h)
EscapeChar(c) ==
    CASE c = "\"" -> <<"\\", "\"">>
      [] c = "\\" -> <<"\\", "\\">>
      [] c = "\n" -> <<"\\", "n">>
      [] c = "\r" -> <<"\\", "r">>
      [] c = "\t" -> <<"\\", "t">>
      [] OTHER    -> <<c>>

EscapeCString(s) == Flatten([i \in 1..Len(s) |-> EscapeChar(s[i])])

\* UnescapeCString (str_helpers.h): a backslash and the character after it
\* stand for one character.  The character at position i is the second of
\* such a pair when an odd number of backslashes runs up to it.
BackslashRun(s, i) ==
    LET others == {j \in 1..(i - 1) : s[j] # "\\"}
    IN  IF others = {} THEN i - 1
        ELSE i - 1 - (CHOOSE j \in others : \A k \in others : k <= j)

UnescapeAt(s, i) ==
    IF BackslashRun(s, i) % 2 = 1
    THEN CASE s[i] = "n" -> <<"\n">>
           [] s[i] = "r" -> <<"\r">>
           [] s[i] = "t" -> <<"\t">>
           [] s[i] \in {"\\", "\""} -> <<s[i]>>
           [] OTHER -> <<"\\", s[i]>>
    ELSE IF s[i] = "\\" THEN (IF i = Len(s) THEN <<"\\">> ELSE <<>>)
    ELSE <<s[i]>>

UnescapeCString(s) == Flatten([i \in 1..Len(s) |-> UnescapeAt(s, i)])

\* FixBrokenSearchPathValue
FixBrokenSearchPathValue(p) ==
    IF p = <<>> THEN p
    ELSE LET q == [i \in 1..Len(p) |-> IF p[i] = "\\" THEN "/" ELSE p[i]]
         IN  IF q[Len(q)] = "/" THEN SubSeq(q, 1, Len(q) - 1) ELSE q

----------------------------------------------------------------------------
(* Catalog::HeaderData *)

\* Language (language.h): a Language is modelled by its code, the invalid
\* Language by the empty code.
KnownLanguages == {<<"fr">>, <<"cs">>}
InvalidLanguage == <<>>
LanguageIsValid(lang) == lang # InvalidLanguage
LanguageCode(lang) == lang
LanguageTryParse(code) == IF code \in KnownLanguages THEN code ELSE InvalidLanguage
LanguageFromLegacyNames(lang, country) ==
    IF lang = <<"French">> THEN <<"fr">> ELSE InvalidLanguage

\* printf("%i", i)
RECURSIVE Decimal(_)
Decimal(i) ==
    LET digit == <<"0", "1", "2", "3", "4", "5", "6", "7", "8", "9">>
    IN  IF i < 10 THEN <<digit[i + 1]>> ELSE Decimal(i \div 10) \o <<digit[(i % 10) + 1]>>

\* path.Printf("X-Poedit-SearchPath-%i", i)
SearchPathKey(i) == <<"X-Poedit-SearchPath-">> \o Decimal(i)
\* path.Printf("X-Poedit-SearchPathExcluded-%i", i)
SearchPathExcludedKey(i) == <<"X-Poedit-SearchPathExcluded-">> \o Decimal(i)

\* Find: index into m_entries of the first entry with the key, 0 for NULL
Find(h, key) ==
    LET hits == {i \in 1..Len(h.m_entries) : h.m_entries[i].Key = key}
    IN  IF hits = {} THEN 0 ELSE CHOOSE i \in hits : \A j \in hits : i <= j

GetHeader(h, key) ==
    IF Find(h, key) # 0 THEN h.m_entries[Find(h, key)].Value ELSE <<>>

HasHeader(h, key) == Find(h, key) # 0

SetHeader(h, key, value) ==
    IF Find(h, key) # 0
    THEN [h EXCEPT !.m_entries[Find(h, key)].Value = value]
    ELSE [h EXCEPT !.m_entries = Append(@, [Key |-> key, Value |-> value])]

DeleteHeader(h, key) ==
    IF HasHeader(h, key)
    THEN [h EXCEPT !.m_entries = SelectSeq(@, LAMBDA e : e.Key # key)]
    ELSE h

SetHeaderNotEmpty(h, key, value) ==
    IF value = <<>> THEN DeleteHeader(h, key) ELSE SetHeader(h, key, value)

canonicalOrder ==
    << <<"Project-Id-Version">>,
       <<"Report-Msgid-Bugs-To">>,
       <<"POT-Creation-Date">>,
       <<"PO-Revision-Date">>,
       <<"Last-Translator">>,
       <<"Language-Team">>,
       <<"Language">>,
       <<"MIME-Version">>,
       <<"Content-Type">>,
       <<"Content-Transfer-Encoding">>,
       <<"Plural-Forms">> >>

\* orderArr.Index(key): 0-based, wxNOT_FOUND (-1) when absent
OrderIndex(key) ==
    IF \E i \in 1..Len(canonicalOrder) : canonicalOrder[i] = key
    THEN (CHOOSE i \in 1..Len(canonicalOrder) : canonicalOrder[i] = key) - 1
    ELSE -1

\* coalesce without the case of a key that is not canonical
coalesceKeepsNotFound(x) == x

\* the lambda coalesce of NormalizeHeaderOrder
coalesce(x) == IF x = -1 THEN 1 + Len(canonicalOrder) ELSE x

\* the comparator given to std::stable_sort
EntryLess(a, b) == coalesce(OrderIndex(a.Key)) < coalesce(OrderIndex(b.Key))

\* std::stable_sort: insertion of each entry after the last one it is not
\* less than
RECURSIVE StableInsert(_, _)
StableInsert(sorted, e) ==
    IF sorted # <<>> /\ EntryLess(e, sorted[Len(sorted)])
    THEN Append(StableInsert(SubSeq(sorted, 1, Len(sorted) - 1), e), sorted[Len(sorted)])
    ELSE Append(sorted, e)

RECURSIVE StableSort(_)
StableSort(es) ==
    IF es = <<>> THEN <<>>
    ELSE StableInsert(StableSort(SubSeq(es, 1, Len(es) - 1)), es[Len(es)])

NormalizeHeaderOrder(h) == [h EXCEPT !.m_entries = StableSort(@)]

\* the loops of UpdateDict that delete X-Poedit-SearchPath-<i>, i = 0, 1, ...
\* while the key is present
RECURSIVE DeleteSearchPaths(_, _)
DeleteSearchPaths(h, i) ==
    IF ~HasHeader(h, SearchPathKey(i)) THEN h
    ELSE DeleteSearchPaths(DeleteHeader(h, SearchPathKey(i)), i + 1)

RECURSIVE DeleteSearchPathsExcluded(_, _)
DeleteSearchPathsExcluded(h, i) ==
    IF ~HasHeader(h, SearchPathExcludedKey(i)) THEN h
    ELSE DeleteSearchPathsExcluded(DeleteHeader(h, SearchPathExcludedKey(i)), i + 1)

\* the loops of UpdateDict that write the lists back
RECURSIVE WriteSearchPaths(_, _)
WriteSearchPaths(h, i) ==
    IF i >= Len(h.SearchPaths) THEN h
    ELSE WriteSearchPaths(SetHeader(h, SearchPathKey(i), h.SearchPaths[i + 1]), i + 1)

RECURSIVE WriteSearchPathsExcluded(_, _)
WriteSearchPathsExcluded(h, i) ==
    IF i >= Len(h.SearchPathsExcluded) THEN h
    ELSE WriteSearchPathsExcluded(
             SetHeader(h, SearchPathExcludedKey(i), h.SearchPathsExcluded[i + 1]), i + 1)

\* kw += Keywords[i] + ';' for every i, then kw.RemoveLast()
JoinKeywords(kws) ==
    LET all == Flatten([i \in 1..Len(kws) |-> kws[i] \o <<";">>])
    IN  SubSeq(all, 1, Len(all) - 1)

UpdateLastTranslator(h) ==
    IF h.TranslatorEmail = <<>>
    THEN IF h.Translator # <<>> \/ ~HasHeader(h, <<"Last-Translator">>)
         THEN SetHeader(h, <<"Last-Translator">>, h.Translator)
         ELSE h
    ELSE IF h.Translator = <<>>
         THEN SetHeader(h, <<"Last-Translator">>, h.TranslatorEmail)
         ELSE SetHeader(h, <<"Last-Translator">>,
                        h.Translator \o <<" ", "<">> \o h.TranslatorEmail \o <<">">>)

UpdateKeywords(h) ==
    IF h.Keywords # <<>>
    THEN SetHeader(h, <<"X-Poedit-KeywordsList">>, JoinKeywords(h.Keywords))
    ELSE h

UpdateDict(h) ==
    LET h1  == SetHeader(h, <<"Project-Id-Version">>, h.Project)
        h2  == SetHeader(h1, <<"POT-Creation-Date">>, h.CreationDate)
        h3  == SetHeader(h2, <<"PO-Revision-Date">>, h.RevisionDate)
        h4  == UpdateLastTranslator(h3)
        h5  == SetHeader(h4, <<"Language-Team">>, h.LanguageTeam)
        h6  == SetHeader(h5, <<"MIME-Version">>, <<"1.0">>)
        h7  == SetHeader(h6, <<"Content-Type">>,
                         <<"text/plain", ";", " ", "charset=">> \o h.Charset)
        h8  == SetHeader(h7, <<"Content-Transfer-Encoding">>, <<"8bit">>)
        h9  == SetHeaderNotEmpty(h8, <<"Language">>, LanguageCode(h.Lang))
        h10 == SetHeader(h9, <<"X-Generator">>, <<"Poedit", " ", "POEDIT_VERSION">>)
        h11 == SetHeaderNotEmpty(h10, <<"X-Poedit-SourceCharset">>, h.SourceCodeCharset)
        h12 == UpdateKeywords(h11)
        h13 == SetHeaderNotEmpty(h12, <<"X-Poedit-Basepath">>, h.BasePath)
        h14 == DeleteSearchPaths(h13, 0)
        h15 == DeleteSearchPathsExcluded(h14, 0)
        h16 == WriteSearchPaths(h15, 0)
        h17 == WriteSearchPathsExcluded(h16, 0)
    IN  NormalizeHeaderOrder(h17)

ParseLastTranslator(h) ==
    LET dummy == GetHeader(h, <<"Last-Translator">>)
        tkn == Tokenize(dummy, {"<", ">"})
    IN  IF dummy = <<>> THEN h
        ELSE IF Len(tkn) # 2
        THEN [h EXCEPT !.Translator = dummy, !.TranslatorEmail = <<>>]
        ELSE [h EXCEPT !.Translator = StripTrailing(tkn[1]), !.TranslatorEmail = tkn[2]]

ParseCharset(h) ==
    LET ctype == GetHeader(h, <<"Content-Type">>)
        needle == <<";", " ", "charset=">>
        charsetPos == FindFrom(ctype, needle)
    IN  IF charsetPos # -1
        THEN [h EXCEPT !.Charset = Strip(Mid(ctype, charsetPos + Len(needle)))]
        ELSE [h EXCEPT !.Charset = <<"UTF-8">>]

ParseLanguage(h) ==
    LET languageCode == GetHeader(h, <<"Language">>)
        l1 == IF languageCode # <<>> THEN LanguageTryParse(languageCode)
              ELSE InvalidLanguage
        xcode == GetHeader(h, <<"X-Language">>)
        l2 == IF ~LanguageIsValid(l1) /\ xcode # <<>> THEN LanguageTryParse(xcode) ELSE l1
        X_Language == GetHeader(h, <<"X-Poedit-Language">>)
        X_Country == GetHeader(h, <<"X-Poedit-Country">>)
        l3 == IF ~LanguageIsValid(l2) /\ X_Language # <<>>
              THEN LanguageFromLegacyNames(X_Language, X_Country) ELSE l2
    IN  DeleteHeader(DeleteHeader([h EXCEPT !.Lang = l3], <<"X-Poedit-Language">>),
                     <<"X-Poedit-Country">>)

ParseKeywords(h) ==
    LET kwlist == GetHeader(h, <<"X-Poedit-KeywordsList">>)
        kw == GetHeader(h, <<"X-Poedit-Keywords">>)
    IN  IF kwlist # <<>>
        THEN [h EXCEPT !.Keywords = Tokenize(kwlist, {";"})]
        ELSE IF kw # <<>>
        THEN DeleteHeader([h EXCEPT !.Keywords = Tokenize(kw, {","})],
                          <<"X-Poedit-Keywords">>)
        ELSE [h EXCEPT !.Keywords = <<>>]

\* the loops of ParseDict that read X-Poedit-SearchPath-<i>, i = 0, 1, ...
\* while the key is present
RECURSIVE ReadSearchPaths(_, _)
ReadSearchPaths(h, i) ==
    IF ~HasHeader(h, SearchPathKey(i)) THEN <<>>
    ELSE LET p == FixBrokenSearchPathValue(GetHeader(h, SearchPathKey(i)))
         IN  (IF p # <<>> THEN <<p>> ELSE <<>>) \o ReadSearchPaths(h, i + 1)

RECURSIVE ReadSearchPathsExcluded(_, _)
ReadSearchPathsExcluded(h, i) ==
    IF ~HasHeader(h, SearchPathExcludedKey(i)) THEN <<>>
    ELSE LET p == FixBrokenSearchPathValue(GetHeader(h, SearchPathExcludedKey(i)))
         IN  (IF p # <<>> THEN <<p>> ELSE <<>>) \o ReadSearchPathsExcluded(h, i + 1)

ParseDict(h) ==
    LET h1 == [h EXCEPT !.Project = GetHeader(h, <<"Project-Id-Version">>),
                        !.CreationDate = GetHeader(h, <<"POT-Creation-Date">>),
                        !.RevisionDate = GetHeader(h, <<"PO-Revision-Date">>)]
        h2 == ParseLastTranslator(h1)
        h3 == [h2 EXCEPT !.LanguageTeam = GetHeader(h2, <<"Language-Team">>)]
        h4 == ParseCharset(h3)
        h5 == ParseLanguage(h4)
        h6 == [h5 EXCEPT !.SourceCodeCharset = GetHeader(h5, <<"X-Poedit-SourceCharset">>),
                         !.BasePath = FixBrokenSearchPathValue(
                                          GetHeader(h5, <<"X-Poedit-Basepath">>))]
        h7 == ParseKeywords(h6)
    IN  [h7 EXCEPT !.SearchPaths = ReadSearchPaths(h7, 0),
                   !.SearchPathsExcluded = ReadSearchPathsExcluded(h7, 0)]

\* the body of the loop without the Strip of the value
ParseLineUnstripped(ln) ==
    LET pos == FindFrom(ln, <<":">>)
    IN  IF pos = -1 THEN <<>>
        ELSE << [Key |-> Strip(SubSeq(ln, 1, pos)), Value |-> Mid(ln, pos + 1)] >>

\* the body of the loop of FromString, for one line
ParseLine(ln) ==
    LET pos == FindFrom(ln, <<":">>)
    IN  IF pos = -1 THEN <<>>
        ELSE << [Key |-> Strip(SubSeq(ln, 1, pos)), Value |-> Strip(Mid(ln, pos + 1))] >>

FromString(h, str) ==
    LET lines == TokenizeLines(str)
    IN  ParseDict([h EXCEPT !.m_entries = Flatten([i \in 1..Len(lines) |-> ParseLine(lines[i])])])

\* the text ToString builds from the entries (after its call of UpdateDict)
HeaderText(h, line_delim) ==
    Flatten([i \in 1..Len(h.m_entries) |->
                EscapeCString(h.m_entries[i].Key) \o <<":", " ">>
                    \o EscapeCString(h.m_entries[i].Value) \o <<"\\", "n">> \o line_delim])


----------------------------------------------------------------------------
(* Bounds and inputs of the HeaderData model *)

\* longest SearchPaths / SearchPathsExcluded list, and highest index of a
\* prior X-Poedit-SearchPath-N entry
MaxPaths == 2

Last(s) == s[Len(s)]

FieldNames ==
    {"Project", "CreationDate", "RevisionDate", "Translator", "TranslatorEmail",
     "LanguageTeam", "Charset", "Lang", "SourceCodeCharset", "BasePath",
     "Keywords", "SearchPaths", "SearchPathsExcluded"}

\* the derived fields of a HeaderData
Fields(h) == [f \in FieldNames |-> h[f]]

PathValue(i) == <<"src", "/">> \o Decimal(i)
PathList(n) == [i \in 1..n |-> PathValue(i)]

DefaultHeader ==
    [Project |-> <<"p">>, CreationDate |-> <<"d">>, RevisionDate |-> <<"r">>,
     Translator |-> <<"n">>, TranslatorEmail |-> <<"e@x">>,
     LanguageTeam |-> <<"t">>, Charset |-> <<"UTF-8">>, Lang |-> <<"fr">>,
     SourceCodeCharset |-> <<>>, BasePath |-> <<".">>,
     Keywords |-> << <<"_">> >>, SearchPaths |-> PathList(1),
     SearchPathsExcluded |-> <<>>, m_entries |-> <<>>]

EmptyHeader ==
    [Project |-> <<>>, CreationDate |-> <<>>, RevisionDate |-> <<>>,
     Translator |-> <<>>, TranslatorEmail |-> <<>>,
     LanguageTeam |-> <<>>, Charset |-> <<>>, Lang |-> InvalidLanguage,
     SourceCodeCharset |-> <<>>, BasePath |-> <<>>,
     Keywords |-> <<>>, SearchPaths |-> <<>>,
     SearchPathsExcluded |-> <<>>, m_entries |-> <<>>]

TextValues ==
    {<<>>, <<"a">>, <<" ", "a">>, <<"a", " ">>, <<"a", "\n", "b">>,
     <<"a", ":", "\"", "\\", "n">>, <<"a", "\t">>}
TranslatorValues == {<<>>, <<"n">>, <<"n", " ", "m">>, <<"n", " ">>, <<"n", "<", "m">>}
EmailValues == {<<>>, <<"e@x">>, <<"e", ">">>}
CharsetValues == {<<>>, <<"UTF-8">>, <<"ISO", " ">>, <<"a", ";", " ", "charset=", "b">>}
PathValues == {<<>>, <<".">>, <<"s", "/">>, <<"s", "\\", "t">>, <<"s", "/", "t">>, <<" ", "s">>}
KeywordsValues ==
    {<<>>, << <<"_">> >>, << <<"_">>, <<"N_", ":", "1", ",", "2">> >>,
     << <<>> >>, << <<"_">>, <<>> >>, << <<>>, <<"_">> >>, << <<"a", ";", "b">> >>}
PathListValues ==
    {PathList(n) : n \in 0..MaxPaths}
        \cup {<<p>> : p \in PathValues} \cup {<<PathValue(1), <<>>, PathValue(2)>>}

HeaderValues ==
    {DefaultHeader, EmptyHeader}
        \cup {[DefaultHeader EXCEPT !.Project = v] : v \in TextValues}
        \cup {[DefaultHeader EXCEPT !.CreationDate = v] : v \in {<<>>, <<" ", "d">>}}
        \cup {[DefaultHeader EXCEPT !.RevisionDate = v] : v \in {<<>>, <<"r", " ">>}}
        \cup {[DefaultHeader EXCEPT !.Translator = p[1], !.TranslatorEmail = p[2]] :
                 p \in TranslatorValues \X EmailValues}
        \cup {[DefaultHeader EXCEPT !.LanguageTeam = v] :
                 v \in {<<>>, <<"t", " ", "<", "l@x", ">">>, <<"t", "\n">>}}
        \cup {[DefaultHeader EXCEPT !.Charset = v] : v \in CharsetValues}
        \cup {[DefaultHeader EXCEPT !.Lang = v] : v \in KnownLanguages \cup {InvalidLanguage}}
        \cup {[DefaultHeader EXCEPT !.SourceCodeCharset = v] : v \in {<<"UTF-8">>, <<"a", " ">>}}
        \cup {[DefaultHeader EXCEPT !.BasePath = v] : v \in PathValues}
        \cup {[DefaultHeader EXCEPT !.Keywords = v] : v \in KeywordsValues}
        \cup {[DefaultHeader EXCEPT !.SearchPaths = v] : v \in PathListValues}
        \cup {[DefaultHeader EXCEPT !.SearchPathsExcluded = v] : v \in PathListValues}

Entry(key, value) == [Key |-> key, Value |-> value]

\* prior X-Poedit-SearchPath-N entries for the indices N in S, by ascending N
RECURSIVE SeriesEntries(_, _)
SeriesEntries(S, i) ==
    IF i > MaxPaths THEN <<>>
    ELSE (IF i \in S THEN <<Entry(SearchPathKey(i), <<"old">> \o Decimal(i))>> ELSE <<>>)
             \o SeriesEntries(S, i + 1)

RECURSIVE SeriesExcludedEntries(_, _)
SeriesExcludedEntries(S, i) ==
    IF i > MaxPaths THEN <<>>
    ELSE (IF i \in S THEN <<Entry(SearchPathExcludedKey(i), <<"oldx">> \o Decimal(i))>>
          ELSE <<>>)
             \o SeriesExcludedEntries(S, i + 1)

\* raw entries a HeaderData may hold before the calls: in arbitrary order,
\* with unknown keys, index series with gaps, legacy keys, a repeated key
SeriesEntriesValues ==
    {<<Entry(<<"X-Custom">>, <<"c">>)>> \o SeriesEntries(S, 0)
                  \o <<Entry(<<"Content-Type">>, <<"text/html">>),
                       Entry(<<"X-Other">>, <<"o">>)>>
                  \o SeriesExcludedEntries(T, 0)
                  \o <<Entry(<<"Project-Id-Version">>, <<"old">>),
                       Entry(<<"Report-Msgid-Bugs-To">>, <<"b@x">>)>> :
                 S \in SUBSET (0..MaxPaths), T \in {{}, (0..MaxPaths) \ {1}}}

OtherEntriesValues ==
    {<<>>,
     <<Entry(<<"X-Poedit-KeywordsList">>, <<"k", ";", "l">>),
                Entry(<<"Plural-Forms">>, <<"nplurals=2">>),
                Entry(<<"Last-Translator">>, <<"Bob">>),
                Entry(<<"X-Poedit-SourceCharset">>, <<"ISO">>),
                Entry(<<"X-Language">>, <<"cs">>),
                Entry(<<"X-Poedit-Basepath">>, <<"old">>),
                Entry(<<"Language">>, <<"xx">>)>>,
     <<Entry(<<"X-Poedit-Language">>, <<"French">>),
                Entry(<<"X-Custom">>, <<"c1">>),
                Entry(<<"X-Poedit-Country">>, <<"FRANCE">>),
                Entry(<<"X-Poedit-Keywords">>, <<"a", ",", "b">>),
                Entry(<<"MIME-Version">>, <<"0.9">>),
                Entry(<<"X-Custom">>, <<"c2">>),
                Entry(<<"Last-Translator">>, <<"Bob", " ", "<", "b@x", ">">>)>>}

\* the headers every prior series of entries is tried with
SeriesHeaderValues ==
    {DefaultHeader, EmptyHeader}
        \cup {[DefaultHeader EXCEPT !.SearchPaths = PathList(n)] : n \in 0..MaxPaths}
        \cup {[DefaultHeader EXCEPT !.SearchPathsExcluded = PathList(n)] : n \in 0..MaxPaths}

LineDelims == {<<"\n">>, <<"\r", "\n">>}

----------------------------------------------------------------------------
(* The calls on a HeaderData *)

HeaderInit ==
    /\ \/ \E h \in HeaderValues, es \in OtherEntriesValues :
              header = [h EXCEPT !.m_entries = es]
       \/ \E h \in SeriesHeaderValues, es \in SeriesEntriesValues :
              header = [h EXCEPT !.m_entries = es]
    /\ header0 = header
    /\ headerPre = header
    /\ calls = <<>>
    /\ wire = <<>>

HeaderCall(name) ==
    /\ calls' = Append(calls, name)
    /\ headerPre' = header

\* The calls modelled are a first call on the HeaderData and the call that
\* consumes its result: UpdateDict, ParseDict, UpdateDict then ParseDict,
\* ToString, ToString then FromString.
CallUpdateDict ==
    /\ calls = <<>>
    /\ HeaderCall("UpdateDict")
    /\ header' = UpdateDict(header)
    /\ UNCHANGED <<header0, wire>>

CallParseDict ==
    /\ calls \in {<<>>, <<"UpdateDict">>}
    /\ HeaderCall("ParseDict")
    /\ header' = ParseDict(header)
    /\ UNCHANGED <<header0, wire>>

CallToString ==
    /\ calls = <<>>
    /\ HeaderCall("ToString")
    /\ \E line_delim \in LineDelims :
           /\ header' = UpdateDict(header)
           /\ wire' = HeaderText(header', line_delim)
    /\ UNCHANGED header0

\* FromString on the text ToString returned
CallFromString ==
    /\ calls = <<"ToString">>
    /\ HeaderCall("FromString")
    /\ header' = FromString(header, wire)
    /\ UNCHANGED <<header0, wire>>

\* FromString on the text ToString returned, once the reader of the file has
\* undone its C-string escapes
CallFromStringUnescaped ==
    /\ calls = <<"ToString">>
    /\ HeaderCall("FromStringUnescaped")
    /\ header' = FromString(header, UnescapeCString(wire))
    /\ UNCHANGED <<header0, wire>>

HeaderNext ==
    \/ CallUpdateDict
    \/ CallParseDict
    \/ CallToString
    \/ CallFromString
    \/ CallFromStringUnescaped


----------------------------------------------------------------------------
(* CatalogItem *)

GetNumberOfTranslations(i) == Len(i.m_translations)

\* GetTranslation(idx), idx counted from 0
GetTranslation(i, idx) ==
    IF idx >= GetNumberOfTranslations(i) THEN <<>> ELSE i.m_translations[idx + 1]

HasPlural(i) == i.m_hasPlural
GetString(i) == i.m_string
GetPluralString(i) == i.m_plural
GetLineNumber(i) == i.m_lineNum
IsTranslated(i) == i.m_isTranslated
IsFuzzy(i) == i.m_isFuzzy
IsPreTranslated(i) == i.m_isPreTranslated

ClearIssue(i) == [i EXCEPT !.m_issue = FALSE]

\* the loop of SetTranslation and SetTranslations that computes m_isTranslated
AllTranslated(ts) == \A k \in 1..Len(ts) : ts[k] # <<>>

\* while (idx >= m_translations.GetCount()) m_translations.Add(wxEmptyString)
RECURSIVE GrowTo(_, _)
GrowTo(ts, idx) == IF idx >= Len(ts) THEN GrowTo(Append(ts, <<>>), idx) ELSE ts

SetTranslation(i, t, idx) ==
    LET ts == [GrowTo(i.m_translations, idx) EXCEPT ![idx + 1] = t]
    IN  [ClearIssue(i) EXCEPT !.m_translations = ts,
                              !.m_isTranslated = AllTranslated(ts)]

SetTranslations(i, t) ==
    [ClearIssue(i) EXCEPT !.m_translations = t, !.m_isTranslated = AllTranslated(t)]

\* the slots SetTranslationFromSource writes: slot 0 from m_string and, with
\* a plural, every further slot from m_plural
SourceSlots(i) ==
    [k \in 1..Len(i.m_translations) |->
        IF k = 1 THEN i.m_string
        ELSE IF i.m_hasPlural THEN i.m_plural ELSE i.m_translations[k]]

\* SetTranslationFromSource setting m_isModified whether or not a slot changes
SetTranslationFromSourceAlwaysModified(i) ==
    [ClearIssue(i) EXCEPT
        !.m_isFuzzy = FALSE,
        !.m_isPreTranslated = FALSE,
        !.m_isTranslated = TRUE,
        !.m_translations = SourceSlots(i),
        !.m_isModified = TRUE]

SetTranslationFromSource(i) ==
    [ClearIssue(i) EXCEPT
        !.m_isFuzzy = FALSE,
        !.m_isPreTranslated = FALSE,
        !.m_isTranslated = TRUE,
        !.m_translations = SourceSlots(i),
        !.m_isModified = @ \/ (\E k \in 1..Len(i.m_translations) :
                                   i.m_translations[k] # SourceSlots(i)[k])]

\* ClearTranslation leaving m_isPreTranslated as it is
ClearTranslationKeepsPreTranslated(i) ==
    [i EXCEPT
        !.m_isFuzzy = FALSE,
        !.m_isTranslated = FALSE,
        !.m_isModified = @ \/ (\E k \in 1..Len(i.m_translations) :
                                   i.m_translations[k] # <<>>),
        !.m_translations = [k \in 1..Len(i.m_translations) |-> <<>>]]

ClearTranslation(i) ==
    [i EXCEPT
        !.m_isFuzzy = FALSE,
        !.m_isPreTranslated = FALSE,
        !.m_isTranslated = FALSE,
        !.m_isModified = @ \/ (\E k \in 1..Len(i.m_translations) :
                                   i.m_translations[k] # <<>>),
        !.m_translations = [k \in 1..Len(i.m_translations) |-> <<>>]]

\* CatalogItem::GetPluralFormsCount
ItemPluralFormsCount(i) ==
    IF ~HasPlural(i) \/ GetNumberOfTranslations(i) = 0 THEN 0
    ELSE GetNumberOfTranslations(i) - 1

----------------------------------------------------------------------------
(* Bounds and inputs of the CatalogItem model *)

\* largest number of translation slots of the item
MaxSlots == 3

SlotTexts == {<<>>, <<"a">>, <<"b">>}

\* the non-empty arrays of at most n slots over the texts T
SlotArrays(T, n) == UNION {[1..k -> T] : k \in 1..n}

\* (m_string, m_plural, m_hasPlural)
SourceValues ==
    {<< <<"a">>, <<>>, FALSE >>, << <<"a">>, <<"b">>, TRUE >>,
     << <<>>, <<>>, FALSE >>, << <<"a">>, <<>>, TRUE >>}

\* (m_isFuzzy, m_isPreTranslated, m_isModified, m_issue)
FlagValues ==
    {<<FALSE, FALSE, FALSE, FALSE>>, <<TRUE, TRUE, TRUE, TRUE>>,
     <<TRUE, FALSE, FALSE, TRUE>>, <<FALSE, TRUE, TRUE, FALSE>>,
     <<FALSE, FALSE, TRUE, FALSE>>, <<TRUE, TRUE, FALSE, FALSE>>}

MakeItem(src, ts, fl, line) ==
    [m_string |-> src[1], m_plural |-> src[2], m_hasPlural |-> src[3],
     m_translations |-> ts, m_isTranslated |-> AllTranslated(ts),
     m_isFuzzy |-> fl[1], m_isPreTranslated |-> fl[2], m_isModified |-> fl[3],
     m_issue |-> fl[4], m_lineNum |-> line]

FirstItem ==
    MakeItem(<< <<"a">>, <<>>, FALSE >>, << <<>> >>, <<FALSE, FALSE, FALSE, FALSE>>, 1)

\* the item as a loader leaves it: slots set by SetTranslations
ItemInit ==
    /\ \E src \in SourceValues, ts \in SlotArrays(SlotTexts, MaxSlots), fl \in FlagValues :
           item = MakeItem(src, ts, fl, 1)
    /\ itemPre = item
    /\ itemOp = "none"

CallSetTranslation ==
    \E t \in {<<>>, <<"a">>}, idx \in 0..(MaxSlots - 1) :
        /\ item' = SetTranslation(item, t, idx)
        /\ itemPre' = item
        /\ itemOp' = "SetTranslation"

CallSetTranslations ==
    \E t \in SlotArrays({<<>>, <<"a">>}, MaxSlots) :
        /\ item' = SetTranslations(item, t)
        /\ itemPre' = item
        /\ itemOp' = "SetTranslations"

CallSetTranslationFromSource ==
    /\ item' = SetTranslationFromSource(item)
    /\ itemPre' = item
    /\ itemOp' = "SetTranslationFromSource"

CallClearTranslation ==
    /\ item' = ClearTranslation(item)
    /\ itemPre' = item
    /\ itemOp' = "ClearTranslation"

ItemNext ==
    \/ CallSetTranslation
    \/ CallSetTranslations
    \/ CallSetTranslationFromSource
    \/ CallClearTranslation

----------------------------------------------------------------------------
(* Catalog *)

\* the loop stopping at the first item at or after the line
RECURSIVE FindLoopStopsAtLine(_, _, _, _)
FindLoopStopsAtLine(items, lineno, k, last) ==
    IF k > Len(items) THEN last
    ELSE IF items[k].m_lineNum >= lineno THEN last
    ELSE FindLoopStopsAtLine(items, lineno, k + 1, last + 1)

\* Catalog::FindItemIndexByLine: the loop over m_items, from position k
\* (counted from 1) with the local variable last
RECURSIVE FindLoop(_, _, _, _)
FindLoop(items, lineno, k, last) ==
    IF k > Len(items) THEN last
    ELSE IF GetLineNumber(items[k]) > lineno THEN last
    ELSE FindLoop(items, lineno, k + 1, last + 1)

FindItemIndexByLine(items, lineno) == FindLoop(items, lineno, 1, -1)

NullItem == "null"

FindItemByLine(items, lineno) ==
    LET i == FindItemIndexByLine(items, lineno)
    IN  IF i = -1 THEN NullItem ELSE items[i + 1]

Max(a, b) == IF a >= b THEN a ELSE b

\* Catalog::GetPluralFormsCount
RECURSIVE GetPluralFormsCount(_)
GetPluralFormsCount(items) ==
    IF items = <<>> THEN 0
    ELSE Max(GetPluralFormsCount(SubSeq(items, 1, Len(items) - 1)),
             ItemPluralFormsCount(items[Len(items)]))

\* the body of the loop without the test of the plural forms count
RemovesItemAnyCount(items, k) ==
    /\ items[k].m_string = GetTranslation(items[k], 0)
    /\ ~(/\ items[k].m_hasPlural
         /\ items[k].m_plural # GetTranslation(items[k], 1))

\* the body of the loop of RemoveSameAsSourceTranslations for the item at
\* position k: TRUE when the item is passed to ClearTranslation
RemovesItem(items, k) ==
    /\ GetString(items[k]) = GetTranslation(items[k], 0)
    /\ ~(/\ HasPlural(items[k])
         /\ (\/ GetPluralFormsCount(items) # 2
             \/ GetPluralString(items[k]) # GetTranslation(items[k], 1)))

\* the loop of RemoveSameAsSourceTranslations from position k on; the result
\* is <<m_items, changed>>
RECURSIVE RemoveLoop(_, _, _)
RemoveLoop(items, k, changed) ==
    IF k > Len(items) THEN <<items, changed>>
    ELSE IF RemovesItem(items, k)
    THEN RemoveLoop([items EXCEPT ![k] = ClearTranslation(items[k])], k + 1, TRUE)
    ELSE RemoveLoop(items, k + 1, changed)

RemoveSameAsSourceTranslations(items) == RemoveLoop(items, 1, FALSE)

----------------------------------------------------------------------------
(* Bounds and inputs of the Catalog model *)

\* largest number of items of the catalog
MaxItems == 2
\* largest number of translation slots of an item of the catalog
MaxForms == 4
\* largest line number
MaxLine == 4

\* the slots of an item of the catalog: slot 0 and slot 1 chosen, the
\* further ones filled
FormSlots(n, t0, t1) ==
    [k \in 1..n |-> IF k = 1 THEN t0 ELSE IF k = 2 THEN t1 ELSE <<"c">>]

CatalogItemValues ==
    {MakeItem(<< <<"a">>, <<>>, FALSE >>, ts, <<TRUE, TRUE, FALSE, FALSE>>, 1) :
        ts \in {<< <<"a">> >>, << <<"x">> >>, << <<"a">>, <<"b">>, <<"c">> >>}}
    \cup {MakeItem(<< <<"a">>, <<"b">>, TRUE >>, FormSlots(n, t0, t1),
                   <<TRUE, TRUE, FALSE, FALSE>>, 1) :
              n \in 2..MaxForms, t0 \in {<<"a">>, <<"x">>}, t1 \in {<<"b">>, <<"y">>}}
    \cup {MakeItem(<< <<"a">>, <<>>, TRUE >>, << <<"a">> >>,
                   <<TRUE, TRUE, FALSE, FALSE>>, 1)}

\* the line numbers of n items, in ascending order
LineNumbers(n) ==
    {ls \in [1..n -> 1..MaxLine] : \A k \in 1..(n - 1) : ls[k] <= ls[k + 1]}

\* item lists in the order of the file they were loaded from: some vary the
\* items (at lines 1, 2, ...), some the line numbers
ItemLists ==
    UNION {
        {[k \in 1..n |-> [its[k] EXCEPT !.m_lineNum = k]] :
             its \in [1..n -> CatalogItemValues]}
        \cup {[k \in 1..n |-> [FirstItem EXCEPT !.m_lineNum = ls[k]]] :
                  ls \in LineNumbers(n)}
        : n \in 0..MaxItems}

CatalogInit ==
    /\ m_items \in ItemLists
    /\ catPre = m_items
    /\ catOp = "none"
    /\ catArg = 0
    /\ catRet = 0

CallFindItemIndexByLine ==
    \E lineno \in 0..(MaxLine + 1) :
        /\ catRet' = FindItemIndexByLine(m_items, lineno)
        /\ catArg' = lineno
        /\ catOp' = "FindItemIndexByLine"
        /\ catPre' = m_items
        /\ UNCHANGED m_items

CallFindItemByLine ==
    \E lineno \in 0..(MaxLine + 1) :
        /\ catRet' = FindItemByLine(m_items, lineno)
        /\ catArg' = lineno
        /\ catOp' = "FindItemByLine"
        /\ catPre' = m_items
        /\ UNCHANGED m_items

CallRemoveSameAsSourceTranslations ==
    /\ m_items' = RemoveSameAsSourceTranslations(m_items)[1]
    /\ catRet' = RemoveSameAsSourceTranslations(m_items)[2]
    /\ catArg' = 0
    /\ catOp' = "RemoveSameAsSourceTranslations"
    /\ catPre' = m_items

CatalogNext ==
    \/ CallFindItemIndexByLine
    \/ CallFindItemByLine
    \/ CallRemoveSameAsSourceTranslations

----------------------------------------------------------------------------
(* CatalogItem: the flags string.  Flags are strings of single characters. *)

\* static const wxString flag_fuzzy(wxS(", fuzzy"))
flag_fuzzy == <<",", " ", "f", "u", "z", "z", "y">>

\* wxString::Replace(old, wxString()) with every occurrence replaced: one
\* pass from the left, the search going on behind each replacement
RECURSIVE ReplaceAllByEmpty(_, _)
ReplaceAllByEmpty(s, old) ==
    LET pos == FindFrom(s, old)
    IN  IF pos = -1 THEN s
        ELSE SubSeq(s, 1, pos) \o ReplaceAllByEmpty(Mid(s, pos + Len(old)), old)

SetFlags(i, flags) ==
    IF FindFrom(flags, flag_fuzzy) # -1
    THEN [i EXCEPT !.m_moreFlags = ReplaceAllByEmpty(flags, flag_fuzzy), !.m_isFuzzy = TRUE]
    ELSE [i EXCEPT !.m_moreFlags = flags, !.m_isFuzzy = FALSE]

GetFlags(i) ==
    IF i.m_isFuzzy
    THEN (IF i.m_moreFlags = <<>> THEN flag_fuzzy ELSE flag_fuzzy \o i.m_moreFlags)
    ELSE i.m_moreFlags

\* s.find_last_of(" \t", pos): 0-based position of the last blank or tab at
\* or before pos, -1 (npos) if none
FindLastOfBlank(s, pos) ==
    LET hits == {k \in 0..pos : k < Len(s) /\ s[k + 1] \in {" ", "\t"}}
    IN  IF hits = {} THEN -1 ELSE CHOOSE k \in hits : \A j \in hits : j <= k

FormatSuffix == <<"-", "f", "o", "r", "m", "a", "t">>
NoPrefix == <<"n", "o", "-">>

\* s.starts_with(p)
StartsWith(s, p) == Len(s) >= Len(p) /\ SubSeq(s, 1, Len(p)) = p

\* the tail of GetFormatFlag, given the position pos of "-format"
FormatAt(s, pos) ==
    LET space == FindLastOfBlank(s, pos)
        format == IF space = -1 THEN SubSeq(s, 1, pos) ELSE SubSeq(s, space + 2, pos)
    IN  IF StartsWith(format, NoPrefix) THEN <<>> ELSE format

GetFormatFlag(i) ==
    IF i.m_moreFlags = <<>> THEN <<>>
    ELSE LET pos == FindFrom(i.m_moreFlags, FormatSuffix)
         IN  IF pos = -1 THEN <<>> ELSE FormatAt(i.m_moreFlags, pos)

(* Inputs of the flags model *)

Chars(word) ==
    CASE word = "c"      -> <<"c">>
      [] word = "no-c"   -> <<"n", "o", "-", "c">>
      [] word = "python" -> <<"p", "y", "t", "h", "o", "n">>
      [] word = "range"  -> <<"r", "a", "n", "g", "e">>

\* ", <word>"
Flag(word) == <<",", " ">> \o Chars(word)
\* ", <word>-format"
FormatFlag(word) == Flag(word) \o FormatSuffix

FlagStrings ==
    {<<>>, flag_fuzzy, FormatFlag("c"), FormatFlag("no-c"), Flag("range"),
     flag_fuzzy \o FormatFlag("c"), FormatFlag("c") \o flag_fuzzy,
     flag_fuzzy \o FormatFlag("no-c") \o flag_fuzzy,
     FormatFlag("no-c") \o FormatFlag("python"),
     FormatFlag("python") \o FormatFlag("no-c"),
     FormatFlag("c") \o FormatFlag("python"),
     Flag("range") \o flag_fuzzy \o FormatFlag("python"),
     Chars("c") \o FormatSuffix,
     <<",", "\t">> \o Chars("python") \o FormatSuffix,
     FormatSuffix,
     <<",", " ", "f", "u">> \o flag_fuzzy \o <<"z", "z", "y">>}

FirstFlagItem == [m_isFuzzy |-> FALSE, m_moreFlags |-> <<>>]

\* the item as a loader leaves it: flags set by SetFlags
FlagsInit ==
    /\ flagItem \in {SetFlags(FirstFlagItem, s) : s \in FlagStrings}
                     \cup {[m_isFuzzy |-> TRUE, m_moreFlags |-> FormatFlag("c")]}
    /\ flagPre = flagItem
    /\ flagOp = "none"
    /\ flagArg = <<>>
    /\ flagRet = <<>>

CallSetFlags ==
    \E s \in FlagStrings :
        /\ flagItem' = SetFlags(flagItem, s)
        /\ flagPre' = flagItem
        /\ flagOp' = "SetFlags"
        /\ flagArg' = s
        /\ flagRet' = <<>>

CallGetFlags ==
    /\ flagRet' = GetFlags(flagItem)
    /\ flagPre' = flagItem
    /\ flagOp' = "GetFlags"
    /\ flagArg' = <<>>
    /\ UNCHANGED flagItem

\* SetFlags(GetFlags())
CallSetFlagsOfGetFlags ==
    /\ flagItem' = SetFlags(flagItem, GetFlags(flagItem))
    /\ flagPre' = flagItem
    /\ flagOp' = "SetFlags(GetFlags())"
    /\ flagArg' = GetFlags(flagItem)
    /\ flagRet' = <<>>

CallGetFormatFlag ==
    /\ flagRet' = GetFormatFlag(flagItem)
    /\ flagPre' = flagItem
    /\ flagOp' = "GetFormatFlag"
    /\ flagArg' = <<>>
    /\ UNCHANGED flagItem

FlagsNext ==
    \/ CallSetFlags
    \/ CallGetFlags
    \/ CallSetFlagsOfGetFlags
    \/ CallGetFormatFlag

----------------------------------------------------------------------------
(* Catalog: sideloaded source data.  The overlay of an item (its            *)
(* m_sideloaded pointer) is <<>> when null and <<data>> when attached.      *)

\* CatalogItem::GetRawString
GetRawString(i) == i.m_string
\* CatalogItem::HasExtractedComments, GetExtractedComments
HasExtractedComments(i) == i.m_extractedComments # <<>>
GetExtractedComments(i) == i.m_extractedComments
\* CatalogItem::AttachSideloadedData, ClearSideloadedData
AttachSideloadedData(i, d) == [i EXCEPT !.m_sideloaded = <<d>>]
ClearSideloadedData(i) == [i EXCEPT !.m_sideloaded = <<>>]

\* refItems.find(raw) after the loop refItems[iref->GetRawString()] = iref:
\* <<>> for end(), else the last item of the reference with the raw string
RefItemsFind(refItemList, raw) ==
    LET hits == {k \in 1..Len(refItemList) : GetRawString(refItemList[k]) = raw}
    IN  IF hits = {} THEN <<>>
        ELSE <<refItemList[CHOOSE k \in hits : \A j \in hits : j <= k]>>

\* the SideloadedItemData made from the reference item rdata
MakeSideloadedItemData(rdata) ==
    [source_string |-> GetTranslation(rdata, 0),
     source_plural_string |-> IF HasPlural(rdata) THEN GetTranslation(rdata, 1) ELSE <<>>,
     extracted_comments |-> IF HasExtractedComments(rdata)
                            THEN GetExtractedComments(rdata) ELSE <<>>]

\* the loop body without the test of the reference's translation
SideloadItemAnyTranslation(i, refItemList) ==
    LET ri == RefItemsFind(refItemList, GetRawString(i))
    IN  IF ri = <<>> THEN i
        ELSE AttachSideloadedData(i, MakeSideloadedItemData(ri[1]))

\* the body of the loop over this->items()
SideloadItem(i, refItemList) ==
    LET ri == RefItemsFind(refItemList, GetRawString(i))
    IN  IF ri = <<>> THEN i
        ELSE IF GetTranslation(ri[1], 0) = <<>> THEN i
        ELSE AttachSideloadedData(i, MakeSideloadedItemData(ri[1]))

\* the items and m_sideloaded after SideloadSourceDataFromReferenceFile(ref)
SideloadSourceDataFromReferenceFile(items, ref) ==
    << [k \in 1..Len(items) |-> SideloadItem(items[k], ref.m_items)],
       << [reference_file |-> ref, source_language |-> ref.Lang] >> >>

\* the items and m_sideloaded after ClearSideloadedSourceData()
ClearSideloadedSourceData(items) ==
    << [k \in 1..Len(items) |-> ClearSideloadedData(items[k])], <<>> >>

(* Inputs of the sideload model *)

Hello == <<"Hello">>
Goodbye == <<"Goodbye">>

\* an item of the catalog that sideloads, without overlay
TargetItem(raw, ts, fuzzy) ==
    [m_string |-> raw, m_translations |-> ts, m_isTranslated |-> AllTranslated(ts),
     m_isFuzzy |-> fuzzy, m_sideloaded |-> <<>>]

TargetLists ==
    {<<>>,
     <<TargetItem(Hello, << <<"Hola">> >>, FALSE)>>,
     <<TargetItem(Hello, << <<>> >>, TRUE), TargetItem(Goodbye, << <<"Adios">> >>, FALSE)>>,
     <<TargetItem(Goodbye, << <<>> >>, FALSE), TargetItem(Hello, << <<"Hola">> >>, TRUE),
       TargetItem(<<"Yes">>, << <<>> >>, FALSE), TargetItem(Hello, << <<>> >>, FALSE)>>}

\* an item of a reference catalog
RefItem(raw, plural, ts, comments) ==
    [m_string |-> raw, m_hasPlural |-> plural, m_translations |-> ts,
     m_extractedComments |-> comments]

RefItemValues(raw) ==
    {RefItem(raw, FALSE, << <<>> >>, <<>>),
     RefItem(raw, FALSE, << <<"Bonjour">> >>, <<"c">>),
     RefItem(raw, TRUE, << <<"Hallo">>, <<"Hallos">> >>, <<>>)}

\* reference catalogs: with pairwise distinct raw strings, and with one raw
\* string twice
RefCatalogs ==
    LET lists == {<<>>}
            \cup {<<r>> : r \in RefItemValues(Hello) \cup RefItemValues(Goodbye)}
            \cup {<<r, q>> : r \in RefItemValues(Hello), q \in RefItemValues(Goodbye)}
            \cup {<<q, r>> : r \in RefItemValues(Hello), q \in RefItemValues(Goodbye)}
            \cup {<<r, q>> : r \in RefItemValues(Hello), q \in RefItemValues(Hello)}
    IN  {[m_items |-> l, Lang |-> <<"fr">>] : l \in lists}

NoCatalog == [m_items |-> <<>>, Lang |-> <<>>]

SideloadInit ==
    /\ sideItems \in TargetLists
    /\ m_sideloaded = <<>>
    /\ sidePre = sideItems
    /\ sideOp = "none"
    /\ sideRef = NoCatalog

CallSideloadSourceDataFromReferenceFile ==
    \E ref \in RefCatalogs :
        /\ sideItems' = SideloadSourceDataFromReferenceFile(sideItems, ref)[1]
        /\ m_sideloaded' = SideloadSourceDataFromReferenceFile(sideItems, ref)[2]
        /\ sidePre' = sideItems
        /\ sideOp' = "SideloadSourceDataFromReferenceFile"
        /\ sideRef' = ref

CallClearSideloadedSourceData ==
    /\ sideItems' = ClearSideloadedSourceData(sideItems)[1]
    /\ m_sideloaded' = ClearSideloadedSourceData(sideItems)[2]
    /\ sidePre' = sideItems
    /\ sideOp' = "ClearSideloadedSourceData"
    /\ sideRef' = NoCatalog

SideloadNext ==
    \/ CallSideloadSourceDataFromReferenceFile
    \/ CallClearSideloadedSourceData

----------------------------------------------------------------------------
(* Catalog::PostCreation.  Here a raw source string is a sequence of the    *)
(* codes of its characters.                                                 *)

SpaceCode == 32
LessThanCode == 60
GreaterThanCode == 62

\* DetectUseOfSymbolicIDs without the test c >= 0x80
DetectUseOfSymbolicIDsBlanksOnly(items) ==
    \A k \in 1..Len(items) :
        \A n \in 1..Len(items[k].m_string) : items[k].m_string[n] # SpaceCode

DetectUseOfSymbolicIDs(items) ==
    \A k \in 1..Len(items) :
        \A n \in 1..Len(items[k].m_string) :
            ~(items[k].m_string[n] = SpaceCode \/ items[k].m_string[n] >= 128)

\* std::regex_replace(s, RE_APPROXIMATE_MARKUP, L" ") with the expression
\* <[^>]*> : every match, from the left, becomes one blank
RECURSIVE WithoutMarkup(_)
WithoutMarkup(str) ==
    LET opens == {n \in 1..Len(str) : str[n] = LessThanCode}
        first == CHOOSE n \in opens : \A j \in opens : n <= j
        closes == {n \in 1..Len(str) : n > first /\ str[n] = GreaterThanCode}
        close == CHOOSE n \in closes : \A j \in closes : n <= j
    IN  IF opens = {} THEN str
        ELSE IF closes = {} THEN str
        ELSE SubSeq(str, 1, first - 1) \o <<SpaceCode>>
                 \o WithoutMarkup(SubSeq(str, close + 1, Len(str)))

\* allText of the source strings
SourceText(items) ==
    Flatten([k \in 1..Len(items) |-> WithoutMarkup(items[k].m_string) \o <<SpaceCode>>])

\* allText of the translations: those of the translated items
TranslationText(items) ==
    Flatten([k \in 1..Len(items) |->
                IF items[k].m_isTranslated
                THEN GetTranslation(items[k], 0) \o <<"\n">> ELSE <<>>])

\* the first block of PostCreation; srcLang is what Language::TryDetectFromText
\* returns for the source text.  The result is the catalog and the texts
\* given to the detector.
PostCreationSource(cat, srcLang) ==
    IF LanguageIsValid(cat.m_sourceLanguage) THEN <<cat, <<>> >>
    ELSE LET symbolic == IF ~cat.m_sourceIsSymbolicID
                         THEN DetectUseOfSymbolicIDs(cat.m_items)
                         ELSE cat.m_sourceIsSymbolicID
             c1 == [cat EXCEPT !.m_sourceIsSymbolicID = symbolic]
             allText == SourceText(cat.m_items)
         IN  IF ~symbolic /\ allText # <<>>
             THEN << [c1 EXCEPT !.m_sourceLanguage = srcLang], << <<"source", allText>> >> >>
             ELSE <<c1, <<>> >>

\* the second block of PostCreation; guess is what
\* Language::TryGuessFromFilename returns, trLang what
\* Language::TryDetectFromText returns for the translations
PostCreationLanguage(cat, guess, trLang) ==
    IF ~cat.hasTranslations THEN <<cat, <<>> >>
    ELSE IF LanguageIsValid(cat.Lang) THEN <<cat, <<>> >>
    ELSE LET lang0 == IF cat.m_fileName # <<>> THEN guess ELSE InvalidLanguage
             allText == TranslationText(cat.m_items)
             detect == ~LanguageIsValid(lang0) /\ allText # <<>>
             lang == IF detect THEN trLang ELSE lang0
         IN  << IF LanguageIsValid(lang) THEN [cat EXCEPT !.Lang = lang] ELSE cat,
                IF detect THEN << <<"translation", allText>> >> ELSE <<>> >>

PostCreation(cat, srcLang, guess, trLang) ==
    LET first == PostCreationSource(cat, srcLang)
        second == PostCreationLanguage(first[1], guess, trLang)
    IN  <<second[1], first[2] \o second[2]>>

(* Inputs of the PostCreation model *)

\* raw source strings: ok, a.b, "a b", an accented letter, a CJK character,
\* a string with markup, the empty string
RawStrings ==
    {<<111, 107>>, <<97, 46, 98>>, <<97, 32, 98>>, <<233>>, <<20013>>,
     <<LessThanCode, 98, GreaterThanCode, 120>>, <<>>}

PostItem(raw, t) ==
    [m_string |-> raw, m_translations |-> <<t>>, m_isTranslated |-> t # <<>>]

PostItemLists ==
    {<<>>}
        \cup {<<PostItem(r, t)>> : r \in RawStrings, t \in {<<>>, <<"x">>}}
        \cup {<<PostItem(<<111, 107>>, <<"x">>), PostItem(r, <<>>)>> : r \in RawStrings}

PostCatalogs ==
    {[m_items |-> l, m_sourceLanguage |-> sl, m_sourceIsSymbolicID |-> sym,
      Lang |-> pr[1], m_fileName |-> pr[2], hasTranslations |-> pr[3]] :
        l \in PostItemLists, sl \in {InvalidLanguage, <<"en">>}, sym \in BOOLEAN,
        pr \in {<<InvalidLanguage, <<"f.po">>, TRUE>>, <<InvalidLanguage, <<>>, TRUE>>,
                 <<<<"fr">>, <<"f.po">>, TRUE>>, <<InvalidLanguage, <<"f.pot">>, FALSE>>}}

PostInit ==
    /\ postCat \in PostCatalogs
    /\ postPre = postCat
    /\ postOp = "none"
    /\ detected = <<>>

CallPostCreation ==
    \E srcLang \in {InvalidLanguage, <<"en">>}, guess \in {InvalidLanguage, <<"fr">>},
       trLang \in {InvalidLanguage, <<"cs">>} :
        /\ postCat' = PostCreation(postCat, srcLang, guess, trLang)[1]
        /\ detected' = PostCreation(postCat, srcLang, guess, trLang)[2]
        /\ postPre' = postCat
        /\ postOp' = "PostCreation"

PostNext == CallPostCreation

----------------------------------------------------------------------------
(* GetSourcesPath, Catalog::HasSourcesConfigured, Catalog::HasSourcesAvailable *)

(* A path string is a sequence of tokens: the separator, or a name between
   separators.  A wxFileName is a record of an absolute flag, the directories
   and a file name (<<>> for a directory). *)

\* wxFILE_SEP_PATH
SEP == "/"

wxIsAbsolutePath(path) == path # <<>> /\ path[1] = SEP

\* position of the last separator, 0 when there is none
LastSep(path) ==
    LET at == {n \in 1..Len(path) : path[n] = SEP}
    IN  IF at = {} THEN 0 ELSE CHOOSE n \in at : \A k \in at : k <= n

\* wxPathOnly (wx): what precedes the last separator, the root for "/name"
wxPathOnly(path) ==
    LET n == LastSep(path)
    IN  IF n = 0 THEN <<>> ELSE IF n = 1 THEN <<SEP>> ELSE SubSeq(path, 1, n - 1)

\* wxFileName::SetPath (wx): the names between separators, empty ones dropped
Components(path) == SelectSeq(path, LAMBDA t : t # SEP)

\* wxFileName::DirName (wx): the whole path names a directory
DirName(path) ==
    [abs |-> wxIsAbsolutePath(path), dirs |-> Components(path), name |-> <<>>]

\* wxFileName(path) (wx): what follows the last separator is the file name
FileName(path) ==
    LET n == LastSep(path)
    IN  [abs |-> wxIsAbsolutePath(path),
         dirs |-> Components(SubSeq(path, 1, n)),
         name |-> SubSeq(path, n + 1, Len(path))]

\* wxPATH_NORM_DOTS (wx): "." is dropped, ".." removes the directory before it
RECURSIVE NormalizeDots(_, _)
NormalizeDots(done, dirs) ==
    IF dirs = <<>> THEN done
    ELSE IF Head(dirs) = "." THEN NormalizeDots(done, Tail(dirs))
    ELSE IF Head(dirs) = ".." /\ done # <<>>
         THEN NormalizeDots(SubSeq(done, 1, Len(done) - 1), Tail(dirs))
    ELSE NormalizeDots(Append(done, Head(dirs)), Tail(dirs))

\* the working directory of the process
cwd == <<"work">>

\* wxFileName::MakeAbsolute (wx): relative to the working directory, dots
\* normalized
MakeAbsolute(fn) ==
    [fn EXCEPT !.abs = TRUE,
               !.dirs = NormalizeDots(<<>>, IF fn.abs THEN fn.dirs ELSE cwd \o fn.dirs)]

\* wxFileName::GetFullPath (wx): every directory followed by a separator,
\* then the file name
GetFullPath(fn) ==
    (IF fn.abs THEN <<SEP>> ELSE <<>>)
        \o Flatten([n \in 1..Len(fn.dirs) |-> <<fn.dirs[n], SEP>>]) \o fn.name

\* the names an absolute path string leads to in the file system
Resolved(path) == NormalizeDots(<<>>, Components(path))

\* wxFileName::DirExists, wxFileName::FileExists, wxFileName::Exists (wx)
DirExists(disk, path) == wxIsAbsolutePath(path) /\ Resolved(path) \in disk.dirs
FileExists(disk, path) == wxIsAbsolutePath(path) /\ Resolved(path) \in disk.files
Exists(disk, path) == DirExists(disk, path) \/ FileExists(disk, path)

\* MakeFileName (utility.h): a directory when the path is one on disk or ends
\* with a separator, else a file; made absolute
MakeFileName(disk, path) ==
    IF path = <<>> THEN [abs |-> FALSE, dirs |-> <<>>, name |-> <<>>]
    ELSE IF DirExists(disk, path) \/ Last(path) = SEP
         THEN MakeAbsolute(DirName(path))
    ELSE MakeAbsolute(FileName(path))

\* length of the longest common prefix of two sequences
CommonLen(a, b) ==
    LET same == {n \in 0..Len(a) :
                    n <= Len(b) /\ \A k \in 1..n : a[k] = b[k]}
    IN  CHOOSE n \in same : \A k \in same : k <= n

\* CommonDirectory (utility.h): the directory of the directories both
\* paths start with
CommonDirectory(a, b) ==
    [abs |-> TRUE, dirs |-> SubSeq(a.dirs, 1, CommonLen(a.dirs, b.dirs)), name |-> <<>>]

\* the loop of GetSourcesPath over header.SearchPaths
RECURSIVE CommonRoot(_, _, _, _)
CommonRoot(disk, root, basepath, paths) ==
    IF paths = <<>> THEN root
    ELSE LET p == Head(paths)
             path == IF p = <<".">> THEN basepath ELSE basepath \o <<SEP>> \o p
         IN  CommonRoot(disk, CommonDirectory(root, MakeFileName(disk, path)),
                        basepath, Tail(paths))

GetSourcesPath(disk, fileName, hdr, kind) ==
    IF fileName = <<>> THEN <<>>
    ELSE IF hdr.BasePath = <<>> THEN <<>>
    ELSE LET basepath ==
                 IF wxIsAbsolutePath(hdr.BasePath) THEN hdr.BasePath
                 ELSE LET path == IF wxPathOnly(fileName) = <<>> THEN <<".">>
                                  ELSE wxPathOnly(fileName)
                      IN  path \o <<SEP>> \o hdr.BasePath \o <<SEP>>
             root == MakeAbsolute(DirName(basepath))
         IN  IF kind = "Root"
             THEN GetFullPath(CommonRoot(disk, root, basepath, hdr.SearchPaths))
             ELSE GetFullPath(root)

GetSourcesBasePath(disk, cat) == GetSourcesPath(disk, cat.m_fileName, cat.m_header, "Base")

GetSourcesRootPath(disk, cat) == GetSourcesPath(disk, cat.m_fileName, cat.m_header, "Root")

HasSourcesConfigured(cat) ==
    /\ cat.m_fileName # <<>>
    /\ cat.m_header.BasePath # <<>>
    /\ cat.m_header.SearchPaths # <<>>

\* root.ends_with(wxString(wxFILE_SEP_PATH) + "Desktop" + wxFILE_SEP_PATH)
EndsWithDesktop(root) ==
    Len(root) >= 3 /\ SubSeq(root, Len(root) - 2, Len(root)) = <<SEP, "Desktop", SEP>>

\* the test of a single search path against the well known directories
UnlikelyRoot(disk, cat) ==
    /\ Len(cat.m_header.SearchPaths) = 1
    /\ LET root == GetSourcesRootPath(disk, cat)
       IN  \/ root = disk.home
           \/ root = disk.documents
           \/ EndsWithDesktop(root)

\* every search path is on disk
SearchPathsExist(disk, cat) ==
    LET basepath == GetSourcesBasePath(disk, cat)
    IN  \A n \in 1..Len(cat.m_header.SearchPaths) :
            LET p == cat.m_header.SearchPaths[n]
                fullp == IF wxIsAbsolutePath(p) THEN p ELSE basepath \o p
            IN  Exists(disk, fullp)

\* HasSourcesAvailable with the test of the single search path made before
\* the marker file is looked at
HasSourcesAvailableHeuristicsFirst(disk, cat) ==
    IF ~HasSourcesConfigured(cat) THEN FALSE
    ELSE IF ~DirExists(disk, GetSourcesBasePath(disk, cat)) THEN FALSE
    ELSE IF ~SearchPathsExist(disk, cat) THEN FALSE
    ELSE IF UnlikelyRoot(disk, cat) THEN FALSE
    ELSE IF cat.m_header.WPHeader # <<>>
         THEN FileExists(disk, GetSourcesBasePath(disk, cat) \o cat.m_header.WPHeader)
    ELSE TRUE

HasSourcesAvailable(disk, cat) ==
    IF ~HasSourcesConfigured(cat) THEN FALSE
    ELSE IF ~DirExists(disk, GetSourcesBasePath(disk, cat)) THEN FALSE
    ELSE IF ~SearchPathsExist(disk, cat) THEN FALSE
    ELSE IF cat.m_header.WPHeader # <<>>
         THEN FileExists(disk, GetSourcesBasePath(disk, cat) \o cat.m_header.WPHeader)
    ELSE IF UnlikelyRoot(disk, cat) THEN FALSE
    ELSE TRUE

(* Inputs of the sources model *)

\* /proj/po/app.po, /home/u/Desktop/app.po, /home/u/app.po, app.po, none
SourceFileNames ==
    {<<SEP, "proj", SEP, "po", SEP, "app.po">>,
     <<SEP, "home", SEP, "u", SEP, "Desktop", SEP, "app.po">>,
     <<SEP, "home", SEP, "u", SEP, "app.po">>,
     <<"app.po">>, <<>>}

\* ../src, ., /proj/src, none
BasePathValues == {<<"..", SEP, "src">>, <<".">>, <<SEP, "proj", SEP, "src">>, <<>>}

\* lib and ., ., lib, ../inc, lib/sub and lib, /opt/lib, a missing one, none
SearchPathLists ==
    {<< <<"lib">>, <<".">> >>, << <<".">> >>, << <<"lib">> >>,
     << <<"..", SEP, "inc">> >>, << <<"lib", SEP, "sub">>, <<"lib">> >>,
     << <<SEP, "opt", SEP, "lib">> >>, << <<"gone">>, <<".">> >>, <<>>}

SourceCatalogs ==
    {[m_fileName |-> f,
      m_header |-> [BasePath |-> b, SearchPaths |-> sp, SearchPathsExcluded |-> ex,
                    WPHeader |-> wp]] :
        f \in SourceFileNames, b \in BasePathValues, sp \in SearchPathLists,
        ex \in {<<>>, << <<"lib">> >>}, wp \in {<<>>, <<"style.css">>}}

ProjectDirs ==
    {<<>>, <<"proj">>, <<"proj", "po">>, <<"proj", "src">>, <<"proj", "src", "lib">>,
     <<"proj", "src", "lib", "sub">>, <<"proj", "inc">>, <<"opt">>, <<"opt", "lib">>,
     <<"home">>, <<"home", "u">>, <<"home", "u", "Desktop">>, <<"home", "u", "lib">>,
     <<"home", "u", "Desktop", "lib">>, <<"work">>}

\* the disks: with and without the marker files, the home directory reported
\* with and without a closing separator
Disks ==
    {[dirs |-> ProjectDirs, files |-> fl, home |-> hm,
      documents |-> <<SEP, "home", SEP, "u", SEP, "Documents", SEP>>] :
        fl \in {{}, {<<"proj", "src", "style.css">>, <<"home", "u", "style.css">>,
                     <<"home", "u", "Desktop", "style.css">>}},
        hm \in {<<SEP, "home", SEP, "u">>, <<SEP, "home", SEP, "u", SEP>>}}

SourcesInit ==
    /\ srcCat \in SourceCatalogs
    /\ srcDisk \in Disks
    /\ srcOp = "none"
    /\ srcRet = <<>>

CallGetSourcesBasePath ==
    /\ srcRet' = GetSourcesBasePath(srcDisk, srcCat)
    /\ srcOp' = "GetSourcesBasePath"
    /\ UNCHANGED <<srcCat, srcDisk>>

CallGetSourcesRootPath ==
    /\ srcRet' = GetSourcesRootPath(srcDisk, srcCat)
    /\ srcOp' = "GetSourcesRootPath"
    /\ UNCHANGED <<srcCat, srcDisk>>

CallHasSourcesConfigured ==
    /\ srcRet' = <<HasSourcesConfigured(srcCat)>>
    /\ srcOp' = "HasSourcesConfigured"
    /\ UNCHANGED <<srcCat, srcDisk>>

CallHasSourcesAvailable ==
    /\ srcRet' = <<HasSourcesAvailable(srcDisk, srcCat)>>
    /\ srcOp' = "HasSourcesAvailable"
    /\ UNCHANGED <<srcCat, srcDisk>>

SourcesNext ==
    \/ CallGetSourcesBasePath
    \/ CallGetSourcesRootPath
    \/ CallHasSourcesConfigured
    \/ CallHasSourcesAvailable

----------------------------------------------------------------------------
(* Specifications: one per object, the other objects left as constructed *)

HeaderIdle ==
    /\ header = EmptyHeader /\ header0 = header /\ headerPre = header
    /\ calls = <<>> /\ wire = <<>>
ItemIdle == item = FirstItem /\ itemPre = item /\ itemOp = "none"
CatalogIdle ==
    /\ m_items = <<>> /\ catPre = m_items /\ catOp = "none" /\ catArg = 0 /\ catRet = 0

FlagsIdle ==
    /\ flagItem = FirstFlagItem /\ flagPre = flagItem
    /\ flagOp = "none" /\ flagArg = <<>> /\ flagRet = <<>>

PostIdle ==
    /\ postCat = [m_items |-> <<>>, m_sourceLanguage |-> InvalidLanguage,
                  m_sourceIsSymbolicID |-> FALSE, Lang |-> InvalidLanguage,
                  m_fileName |-> <<>>, hasTranslations |-> TRUE]
    /\ postPre = postCat /\ postOp = "none" /\ detected = <<>>

SideloadIdle ==
    /\ sideItems = <<>> /\ m_sideloaded = <<>> /\ sidePre = sideItems
    /\ sideOp = "none" /\ sideRef = NoCatalog

SourcesIdle ==
    /\ srcCat = [m_fileName |-> <<>>,
                 m_header |-> [BasePath |-> <<>>, SearchPaths |-> <<>>,
                               SearchPathsExcluded |-> <<>>, WPHeader |-> <<>>]]
    /\ srcDisk = [dirs |-> {<<>>}, files |-> {}, home |-> <<SEP>>, documents |-> <<SEP>>]
    /\ srcOp = "none" /\ srcRet = <<>>

SpecHeaderInit == HeaderInit /\ ItemIdle /\ CatalogIdle /\ FlagsIdle /\ SideloadIdle /\ PostIdle /\ SourcesIdle
SpecHeaderNext == HeaderNext /\ UNCHANGED <<itemVars, catVars, flagVars, sideVars, postVars, srcVars>>
SpecHeader == SpecHeaderInit /\ [][SpecHeaderNext]_vars

SpecItemInit == ItemInit /\ HeaderIdle /\ CatalogIdle /\ FlagsIdle /\ SideloadIdle /\ PostIdle /\ SourcesIdle
SpecItemNext == ItemNext /\ UNCHANGED <<headerVars, catVars, flagVars, sideVars, postVars, srcVars>>
SpecItem == SpecItemInit /\ [][SpecItemNext]_vars

SpecCatalogInit == CatalogInit /\ HeaderIdle /\ ItemIdle /\ FlagsIdle /\ SideloadIdle /\ PostIdle /\ SourcesIdle
SpecCatalogNext == CatalogNext /\ UNCHANGED <<headerVars, itemVars, flagVars, sideVars, postVars, srcVars>>
SpecCatalog == SpecCatalogInit /\ [][SpecCatalogNext]_vars

SpecFlagsInit == FlagsInit /\ HeaderIdle /\ ItemIdle /\ CatalogIdle /\ SideloadIdle /\ PostIdle /\ SourcesIdle
SpecFlagsNext == FlagsNext /\ UNCHANGED <<headerVars, itemVars, catVars, sideVars, postVars, srcVars>>
SpecFlags == SpecFlagsInit /\ [][SpecFlagsNext]_vars

SpecSideloadInit ==
    SideloadInit /\ HeaderIdle /\ ItemIdle /\ CatalogIdle /\ FlagsIdle /\ PostIdle
        /\ SourcesIdle
SpecSideloadNext ==
    SideloadNext /\ UNCHANGED <<headerVars, itemVars, catVars, flagVars, postVars, srcVars>>
SpecSideload == SpecSideloadInit /\ [][SpecSideloadNext]_vars

SpecPostInit ==
    PostInit /\ HeaderIdle /\ ItemIdle /\ CatalogIdle /\ FlagsIdle /\ SideloadIdle
        /\ SourcesIdle
SpecPostNext ==
    PostNext /\ UNCHANGED <<headerVars, itemVars, catVars, flagVars, sideVars, srcVars>>
SpecPost == SpecPostInit /\ [][SpecPostNext]_vars

SpecSourcesInit ==
    SourcesInit /\ HeaderIdle /\ ItemIdle /\ CatalogIdle /\ FlagsIdle /\ SideloadIdle
        /\ PostIdle
SpecSourcesNext ==
    SourcesNext /\ UNCHANGED <<headerVars, itemVars, catVars, flagVars, sideVars, postVars>>
SpecSources == SpecSourcesInit /\ [][SpecSourcesNext]_vars


----------------------------------------------------------------------------
(* Properties of Catalog::HeaderData *)

AfterUpdateDict == calls # <<>> /\ Last(calls) = "UpdateDict"

Keys(es) == [i \in 1..Len(es) |-> es[i].Key]
KeySet(es) == {es[i].Key : i \in 1..Len(es)}
IsCanonical(key) == OrderIndex(key) # -1
IsIndexedKey(key) ==
    Len(key) = 2 /\ key[1] \in {"X-Poedit-SearchPath-", "X-Poedit-SearchPathExcluded-"}

\* number of entries of h with the key
CountHeader(h, key) == Cardinality({i \in 1..Len(h.m_entries) : h.m_entries[i].Key = key})

\* a HeaderData built from field values alone
BuiltFromFields(h) == h.m_entries = <<>>

EntrySet(h) == {<<h.m_entries[i].Key, h.m_entries[i].Value>> : i \in 1..Len(h.m_entries)}

NoChar(s, cs) == \A i \in 1..Len(s) : s[i] \notin cs
PlainText(s) == NoChar(s, {"\n"}) /\ Strip(s) = s
PlainPath(p) == p # <<>> /\ PlainText(p) /\ FixBrokenSearchPathValue(p) = p

\* field values that one Key: Value line each can carry
RoundTripValues(h) ==
    /\ \A f \in {"Project", "CreationDate", "RevisionDate", "Translator", "LanguageTeam",
                 "Charset", "SourceCodeCharset"} : PlainText(h[f])
    /\ NoChar(h.Translator, {"<", ">"})
    /\ NoChar(h.TranslatorEmail, {"<", ">", "\n"})
    /\ h.TranslatorEmail # <<>> => h.Translator # <<>>
    /\ h.BasePath # <<>> => PlainPath(h.BasePath)
    /\ \A i \in 1..Len(h.Keywords) :
           h.Keywords[i] # <<>> /\ PlainText(h.Keywords[i]) /\ NoChar(h.Keywords[i], {";"})
    /\ \A i \in 1..Len(h.SearchPaths) : PlainPath(h.SearchPaths[i])
    /\ \A i \in 1..Len(h.SearchPathsExcluded) : PlainPath(h.SearchPathsExcluded[i])

\* field values that UpdateDict writes and ParseDict reads back unchanged
\* when the HeaderData holds no entry before the calls, and prior entries
\* without the legacy keys that ParseDict migrates
PlainFields(h) ==
    /\ RoundTripValues(h)
    /\ h.Translator # <<>>
    /\ LanguageIsValid(h.Lang)
    /\ \A key \in {<<"X-Poedit-Keywords">>, <<"X-Poedit-Language">>, <<"X-Poedit-Country">>} :
           ~HasHeader(h, key)

\* C1: UpdateDict followed by ParseDict leaves every derived field equal to
\* the value it had before UpdateDict, whatever raw entries the HeaderData
\* held.  Stated for the field values of PlainFields, so that only the
\* entries held before the calls can make a field differ.
C1_UpdateThenParseKeepsFields ==
    (calls = <<"UpdateDict", "ParseDict">> /\ PlainFields(header0)) =>
        Fields(header) = Fields(header0)

CanonicalFirst(es) ==
    \A i, j \in 1..Len(es) :
        (i < j /\ IsCanonical(es[j].Key)) =>
            /\ IsCanonical(es[i].Key)
            /\ OrderIndex(es[i].Key) <= OrderIndex(es[j].Key)

\* the keys of es that satisfy Keep and occur in both before and after
KeptKeys(es, before, after, Keep(_)) ==
    Keys(SelectSeq(es, LAMBDA e : /\ Keep(e.Key)
                                  /\ e.Key \in KeySet(before)
                                  /\ e.Key \in KeySet(after)))

NotCanonical(key) == ~IsCanonical(key)
NotCanonicalNorIndexed(key) == ~IsCanonical(key) /\ ~IsIndexedKey(key)

\* C3 as stated: after UpdateDict the canonical keys come first, in the
\* fixed order, and the non-canonical keys present before and after the
\* call keep their relative order.
C3_CanonicalOrderAllKeys ==
    AfterUpdateDict =>
        /\ CanonicalFirst(header.m_entries)
        /\ KeptKeys(header.m_entries, headerPre.m_entries, header.m_entries, NotCanonical)
             = KeptKeys(headerPre.m_entries, headerPre.m_entries, header.m_entries, NotCanonical)

\* C3 amended: after UpdateDict the canonical keys come first, in the fixed
\* order, and the non-canonical keys present before and after the call,
\* other than the X-Poedit-SearchPath-N and X-Poedit-SearchPathExcluded-N
\* keys (which are deleted and appended again), keep their relative order.
C3_CanonicalOrder ==
    AfterUpdateDict =>
        /\ CanonicalFirst(header.m_entries)
        /\ KeptKeys(header.m_entries, headerPre.m_entries, header.m_entries,
                    NotCanonicalNorIndexed)
             = KeptKeys(headerPre.m_entries, headerPre.m_entries, header.m_entries,
                        NotCanonicalNorIndexed)

C3_Witness ==
    /\ AfterUpdateDict
    /\ ~CanonicalFirst(headerPre.m_entries)
    /\ Len(KeptKeys(header.m_entries, headerPre.m_entries, header.m_entries,
                    NotCanonicalNorIndexed)) >= 2
    /\ \E i \in 1..Len(headerPre.m_entries) : IsIndexedKey(headerPre.m_entries[i].Key)
    /\ \E i, j \in 1..Len(header.m_entries) :
           /\ i < j
           /\ IsCanonical(header.m_entries[i].Key)
           /\ ~IsCanonical(header.m_entries[j].Key)

\* the entries of the index series are exactly those of the list
SeriesIsList(h, SeriesKey(_), list) ==
    \A n \in 0..(MaxPaths + 1) :
        IF n < Len(list)
        THEN CountHeader(h, SeriesKey(n)) = 1 /\ GetHeader(h, SeriesKey(n)) = list[n + 1]
        ELSE ~HasHeader(h, SeriesKey(n))

\* C4: after UpdateDict the X-Poedit-SearchPath-N entries are exactly those
\* with N = 0 .. |SearchPaths|-1, each with value SearchPaths[N], whatever
\* indices the prior entries held (gaps included); the same for
\* X-Poedit-SearchPathExcluded-N and SearchPathsExcluded.
C4_SeriesRegenerated ==
    AfterUpdateDict =>
        /\ SeriesIsList(header, SearchPathKey, header.SearchPaths)
        /\ SeriesIsList(header, SearchPathExcludedKey, header.SearchPathsExcluded)

\* C5: after UpdateDict each of X-Poedit-SourceCharset, X-Poedit-KeywordsList
\* and X-Poedit-Basepath is present if and only if its field is not empty.
C5_ExtensionKeysIffNonEmpty ==
    AfterUpdateDict =>
        /\ HasHeader(header, <<"X-Poedit-SourceCharset">>) <=> header.SourceCodeCharset # <<>>
        /\ HasHeader(header, <<"X-Poedit-KeywordsList">>) <=> header.Keywords # <<>>
        /\ HasHeader(header, <<"X-Poedit-Basepath">>) <=> header.BasePath # <<>>


----------------------------------------------------------------------------
(* Properties of CatalogItem *)

EverySlotNonEmpty(i) == \A k \in 1..Len(i.m_translations) : i.m_translations[k] # <<>>
EverySlotEmpty(i) == \A k \in 1..Len(i.m_translations) : i.m_translations[k] = <<>>

\* C6: in every state reached by SetTranslation, SetTranslations,
\* SetTranslationFromSource and ClearTranslation, IsTranslated() is true if
\* and only if every translation slot is non-empty.
C6_TranslatedIffEverySlotNonEmpty == IsTranslated(item) <=> EverySlotNonEmpty(item)

\* C7: after ClearTranslation the number of slots is unchanged, every slot
\* is empty, IsTranslated, IsFuzzy and IsPreTranslated are false, and
\* isModified is true if a slot was non-empty before the call and otherwise
\* keeps the value it had.
C7_ClearTranslation ==
    itemOp = "ClearTranslation" =>
        /\ Len(item.m_translations) = Len(itemPre.m_translations)
        /\ EverySlotEmpty(item)
        /\ ~IsTranslated(item) /\ ~IsFuzzy(item) /\ ~IsPreTranslated(item)
        /\ item.m_isModified = (IF EverySlotEmpty(itemPre) THEN itemPre.m_isModified ELSE TRUE)

C7_Witness ==
    /\ itemOp = "ClearTranslation"
    /\ Len(itemPre.m_translations) >= 2
    /\ ~EverySlotEmpty(itemPre) /\ ~EverySlotNonEmpty(itemPre)
    /\ ~itemPre.m_isModified /\ itemPre.m_isFuzzy /\ itemPre.m_isPreTranslated
    /\ item.m_isModified /\ EverySlotEmpty(item)

\* C8: after SetTranslationFromSource on an item with at least one slot,
\* slot 0 is the source string and, with a plural, every further slot the
\* plural source; isFuzzy and isPreTranslated are false, isTranslated is
\* true; isModified is true if a slot changed and otherwise keeps the value
\* it had (a second call in a row does not set it).
C8_SetTranslationFromSource ==
    (itemOp = "SetTranslationFromSource" /\ Len(itemPre.m_translations) >= 1) =>
        /\ Len(item.m_translations) = Len(itemPre.m_translations)
        /\ item.m_translations[1] = item.m_string
        /\ item.m_hasPlural =>
               \A k \in 2..Len(item.m_translations) : item.m_translations[k] = item.m_plural
        /\ ~IsFuzzy(item) /\ ~IsPreTranslated(item) /\ IsTranslated(item)
        /\ item.m_isModified =
               (IF item.m_translations = itemPre.m_translations
                THEN itemPre.m_isModified ELSE TRUE)

\* the second of two calls in a row, on a pluralized item that was not modified
C8_Witness ==
    /\ itemOp = "SetTranslationFromSource"
    /\ item.m_hasPlural /\ Len(item.m_translations) >= 2
    /\ item.m_translations = itemPre.m_translations
    /\ item.m_translations[2] = item.m_plural
    /\ ~itemPre.m_isModified /\ ~item.m_isModified

----------------------------------------------------------------------------
(* Properties of Catalog *)

\* the condition of C9 on the item at position k before the call; slot n is
\* what GetTranslation(n) returns, the empty string for a slot the item lacks
SameAsSource(items, k) ==
    /\ GetTranslation(items[k], 0) = items[k].m_string
    /\ \/ ~items[k].m_hasPlural
       \/ /\ GetPluralFormsCount(items) = 2
          /\ GetTranslation(items[k], 1) = items[k].m_plural

\* post is pre with its translation cleared
IsCleared(pre, post) ==
    /\ Len(post.m_translations) = Len(pre.m_translations)
    /\ EverySlotEmpty(post)
    /\ ~post.m_isTranslated /\ ~post.m_isFuzzy /\ ~post.m_isPreTranslated
    /\ post.m_string = pre.m_string /\ post.m_plural = pre.m_plural
    /\ post.m_hasPlural = pre.m_hasPlural /\ post.m_lineNum = pre.m_lineNum

\* C9: after RemoveSameAsSourceTranslations an item has been cleared if and
\* only if, before the call, its slot 0 equalled its source string and
\* either it had no plural or the plural forms count of the catalog was 2 and
\* its slot 1 equalled its plural source; every other item is unchanged.
C9_RemoveSameAsSource ==
    catOp = "RemoveSameAsSourceTranslations" =>
        /\ Len(m_items) = Len(catPre)
        /\ \A k \in 1..Len(catPre) :
               IF SameAsSource(catPre, k)
               THEN IsCleared(catPre[k], m_items[k])
               ELSE m_items[k] = catPre[k]

\* a catalog with plural forms count 3: the single-form item is cleared, the
\* pluralized item whose slots equal its sources is left as it was
C9_Witness ==
    /\ catOp = "RemoveSameAsSourceTranslations"
    /\ GetPluralFormsCount(catPre) = 3
    /\ \E k \in 1..Len(catPre) :
           /\ catPre[k].m_hasPlural
           /\ catPre[k].m_translations[1] = catPre[k].m_string
           /\ catPre[k].m_translations[2] = catPre[k].m_plural
           /\ m_items[k] = catPre[k]
    /\ \E k \in 1..Len(catPre) :
           /\ ~catPre[k].m_hasPlural
           /\ catPre[k].m_translations[1] = catPre[k].m_string
           /\ EverySlotEmpty(m_items[k]) /\ ~m_items[k].m_isFuzzy

Ascending(items) ==
    \A k \in 1..(Len(items) - 1) : items[k].m_lineNum <= items[k + 1].m_lineNum

\* the positions (from 1) of the items whose line number is at most n
AtOrBefore(items, n) == {k \in 1..Len(items) : items[k].m_lineNum <= n}

\* C10: with the items in ascending line order, FindItemIndexByLine(n) is
\* the index of the last item whose line number is <= n, and -1 when there
\* is none (FindItemByLine then returns the null item), also for an empty
\* catalog.
C10_FindItemByLine ==
    (catOp \in {"FindItemIndexByLine", "FindItemByLine"} /\ Ascending(m_items)) =>
        LET found == AtOrBefore(m_items, catArg)
            last == CHOOSE k \in found : \A j \in found : j <= k
        IN  IF catOp = "FindItemIndexByLine"
            THEN catRet = (IF found = {} THEN -1 ELSE last - 1)
            ELSE catRet = (IF found = {} THEN NullItem ELSE m_items[last])

C10_Witness ==
    /\ catOp = "FindItemIndexByLine"
    /\ Len(m_items) = 2
    /\ m_items[1].m_lineNum < catArg /\ catArg < m_items[2].m_lineNum
    /\ catRet = 0

----------------------------------------------------------------------------
(* Properties of the flags of a CatalogItem *)

Contains(s, p) == \E k \in 0..(Len(s) - Len(p)) : SubSeq(s, k + 1, k + Len(p)) = p

\* C15: after SetFlags(s), IsFuzzy() is true if and only if s contains
\* ", fuzzy" and the extra flags no longer contain ", fuzzy"; GetFlags()
\* returns ", fuzzy" followed by the extra flags when fuzzy is set and the
\* extra flags alone otherwise; SetFlags(GetFlags()) leaves the fuzzy flag
\* and the extra flags unchanged.
C15_SetFlagsGetFlags ==
    /\ flagOp = "SetFlags" =>
           /\ flagItem.m_isFuzzy = Contains(flagArg, flag_fuzzy)
           /\ ~Contains(flagItem.m_moreFlags, flag_fuzzy)
    /\ flagOp = "GetFlags" =>
           flagRet = (IF flagItem.m_isFuzzy THEN flag_fuzzy \o flagItem.m_moreFlags
                      ELSE flagItem.m_moreFlags)
    /\ flagOp = "SetFlags(GetFlags())" => flagItem = flagPre

\* the 0-based positions of "-format" in s
FormatPositions(s) ==
    {k \in 0..(Len(s) - Len(FormatSuffix)) :
        SubSeq(s, k + 1, k + Len(FormatSuffix)) = FormatSuffix}

\* the characters before position pos, back to the nearest blank or tab
TokenBefore(s, pos) ==
    LET blanks == {k \in 1..pos : s[k] \in {" ", "\t"}}
        from == IF blanks = {} THEN 1
                ELSE 1 + (CHOOSE k \in blanks : \A j \in blanks : j <= k)
    IN  SubSeq(s, from, pos)

\* C16: GetFormatFlag() returns the token bounded by white space before the
\* last "-format" of the extra flags, and the empty string when there is no
\* "-format" or when that token starts with "no-".
C16_GetFormatFlagLast ==
    flagOp = "GetFormatFlag" =>
        LET s == flagItem.m_moreFlags
            ps == FormatPositions(s)
            last == CHOOSE k \in ps : \A j \in ps : j <= k
        IN  flagRet = (IF ps = {} THEN <<>>
                       ELSE IF StartsWith(TokenBefore(s, last), NoPrefix) THEN <<>>
                       ELSE TokenBefore(s, last))

----------------------------------------------------------------------------
(* Properties of the sideloaded source data *)

HasOverlay(i) == i.m_sideloaded # <<>>
NoOverlays(items) == \A k \in 1..Len(items) : ~HasOverlay(items[k])
DistinctRaw(refItemList) ==
    \A j, k \in 1..Len(refItemList) :
        j # k => refItemList[j].m_string # refItemList[k].m_string

\* the items of the reference with the raw string and a primary translation
Sources(ref, raw) ==
    {k \in 1..Len(ref.m_items) :
        ref.m_items[k].m_string = raw /\ ref.m_items[k].m_translations[1] # <<>>}

\* the item without its overlay
OwnFields(i) == [i EXCEPT !.m_sideloaded = <<>>]

\* C11: after SideloadSourceDataFromReferenceFile(ref) on a catalog whose
\* items carry no overlay, with the raw strings of ref pairwise distinct, an
\* item has an overlay if and only if an item of ref has its raw string and a
\* non-empty primary translation; the source text of the overlay is that
\* translation; the item's own fields are unchanged.
C11_SideloadOverlay ==
    (/\ sideOp = "SideloadSourceDataFromReferenceFile"
     /\ NoOverlays(sidePre)
     /\ DistinctRaw(sideRef.m_items)) =>
        /\ Len(sideItems) = Len(sidePre)
        /\ \A k \in 1..Len(sideItems) :
               /\ HasOverlay(sideItems[k]) <=> Sources(sideRef, sideItems[k].m_string) # {}
               /\ HasOverlay(sideItems[k]) =>
                      \A r \in Sources(sideRef, sideItems[k].m_string) :
                          sideItems[k].m_sideloaded[1].source_string
                              = sideRef.m_items[r].m_translations[1]
               /\ OwnFields(sideItems[k]) = OwnFields(sidePre[k])

\* Hello gains the overlay Bonjour; an item whose raw string the reference
\* lacks, and one whose reference item has no translation, gain none
C11_Witness ==
    /\ sideOp = "SideloadSourceDataFromReferenceFile"
    /\ NoOverlays(sidePre)
    /\ DistinctRaw(sideRef.m_items)
    /\ \E k \in 1..Len(sideItems) :
           /\ sideItems[k].m_string = Hello
           /\ HasOverlay(sideItems[k])
           /\ sideItems[k].m_sideloaded[1].source_string = <<"Bonjour">>
    /\ \E k \in 1..Len(sideItems) :
           /\ sideItems[k].m_string = <<"Yes">> /\ ~HasOverlay(sideItems[k])
    /\ \E k \in 1..Len(sideItems), r \in 1..Len(sideRef.m_items) :
           /\ sideItems[k].m_string = Goodbye /\ ~HasOverlay(sideItems[k])
           /\ sideRef.m_items[r].m_string = Goodbye

\* C17: after any sequence of SideloadSourceDataFromReferenceFile calls, the
\* overlay of every item that carries one has as source text the primary
\* translation of the item with the same raw string in the reference
\* recorded in m_sideloaded; after ClearSideloadedSourceData no item carries
\* an overlay and m_sideloaded is reset.
C17_OverlaysOfLatestReference ==
    /\ m_sideloaded # <<>> =>
           \A k \in 1..Len(sideItems) :
               HasOverlay(sideItems[k]) =>
                   \E r \in Sources(m_sideloaded[1].reference_file, sideItems[k].m_string) :
                       sideItems[k].m_sideloaded[1].source_string
                           = m_sideloaded[1].reference_file.m_items[r].m_translations[1]
    /\ sideOp = "ClearSideloadedSourceData" =>
           NoOverlays(sideItems) /\ m_sideloaded = <<>>

----------------------------------------------------------------------------
(* Properties of Catalog::PostCreation *)

\* no character of a raw source string is a blank or has a code >= 0x80
NoBlankNoExtended(items) ==
    \A k \in 1..Len(items) :
        \A n \in 1..Len(items[k].m_string) :
            items[k].m_string[n] # 32 /\ items[k].m_string[n] < 128

SourceDetections == SelectSeq(detected, LAMBDA d : d[1] = "source")

\* what C12 says of a call of PostCreation
SymbolicIffPlain ==
    /\ postCat.m_sourceIsSymbolicID <=> NoBlankNoExtended(postCat.m_items)
    /\ postCat.m_sourceIsSymbolicID =>
           SourceDetections = <<>> /\ ~LanguageIsValid(postCat.m_sourceLanguage)
    /\ ~postCat.m_sourceIsSymbolicID =>
           SourceDetections = << <<"source", SourceText(postCat.m_items)>> >>

\* C12 as stated: when PostCreation runs on a catalog whose source language
\* is not known, the catalog is marked as using symbolic IDs if and only if
\* no character of a raw source string is a blank or has a code >= 0x80; when
\* marked, the detector is not invoked for the source text and the source
\* language stays unset; when not, the detector is invoked on the source text.
C12_SymbolicIDsAnyCatalog ==
    (postOp = "PostCreation" /\ ~LanguageIsValid(postPre.m_sourceLanguage)) =>
        SymbolicIffPlain

\* C12 amended: the same for a catalog that is not marked as using symbolic
\* IDs before the call; a catalog that is marked stays marked, without
\* detection of the source language.
C12_SymbolicIDs ==
    (postOp = "PostCreation" /\ ~LanguageIsValid(postPre.m_sourceLanguage)) =>
        IF postPre.m_sourceIsSymbolicID
        THEN /\ postCat.m_sourceIsSymbolicID
             /\ SourceDetections = <<>>
             /\ ~LanguageIsValid(postCat.m_sourceLanguage)
        ELSE SymbolicIffPlain

C12_Witness ==
    /\ postOp = "PostCreation"
    /\ ~LanguageIsValid(postPre.m_sourceLanguage)
    /\ ~postPre.m_sourceIsSymbolicID
    /\ Len(postCat.m_items) = 2
    /\ postCat.m_sourceIsSymbolicID
    /\ detected # <<>>

----------------------------------------------------------------------------
(* Properties of the sources paths *)

\* the directory of the catalog file, as names from the root
FileDirectory(fileName) ==
    LET names == Components(fileName)
        above == SubSeq(names, 1, Len(names) - 1)
    IN  IF wxIsAbsolutePath(fileName) THEN above ELSE cwd \o above

\* a path resolved against a directory: itself when absolute
ResolvedAgainst(dir, path) ==
    NormalizeDots(<<>>, IF wxIsAbsolutePath(path) THEN Components(path)
                        ELSE dir \o Components(path))

ExpectedBase(cat) == ResolvedAgainst(FileDirectory(cat.m_fileName), cat.m_header.BasePath)

\* the base path and every search path, resolved
SourcePlaces(cat) ==
    {ExpectedBase(cat)} \cup
        {ResolvedAgainst(ExpectedBase(cat), cat.m_header.SearchPaths[n]) :
            n \in 1..Len(cat.m_header.SearchPaths)}

IsPrefix(a, b) == Len(a) <= Len(b) /\ SubSeq(b, 1, Len(a)) = a

\* the deepest directory that is an ancestor of, or equal to, every place
DeepestCommonAncestor(places) ==
    LET one == CHOOSE pl \in places : TRUE
        common == {n \in 0..Len(one) :
                      \A pl \in places : IsPrefix(SubSeq(one, 1, n), pl)}
    IN  SubSeq(one, 1, CHOOSE n \in common : \A k \in common : k <= n)

\* C13: for a catalog with a file path and a non-empty base path,
\* GetSourcesBasePath() is the base path resolved against the directory of
\* the catalog file (itself when absolute), and GetSourcesRootPath() is the
\* deepest directory that is an ancestor of, or equal to, the base path and
\* every search path resolved against the base path; excluded search paths
\* have no influence.
C13_BaseAndRootPath ==
    (srcCat.m_fileName # <<>> /\ srcCat.m_header.BasePath # <<>>) =>
        /\ srcOp = "GetSourcesBasePath" =>
               wxIsAbsolutePath(srcRet) /\ Components(srcRet) = ExpectedBase(srcCat)
        /\ srcOp = "GetSourcesRootPath" =>
               /\ wxIsAbsolutePath(srcRet)
               /\ Components(srcRet) = DeepestCommonAncestor(SourcePlaces(srcCat))

AllPathsExist(cat) ==
    /\ ExpectedBase(cat) \in srcDisk.dirs
    /\ SourcePlaces(cat) \subseteq srcDisk.dirs \cup srcDisk.files

\* C14: HasSourcesAvailable() on a configured catalog whose base directory
\* and search paths all exist, and whose X-Poedit-WPHeader is non-empty,
\* returns true exactly when the marker file exists under the base path,
\* whatever the root path is; it returns false whenever the catalog is not
\* configured.
C14_MarkerFileDecides ==
    srcOp = "HasSourcesAvailable" =>
        LET configured == /\ srcCat.m_fileName # <<>>
                          /\ srcCat.m_header.BasePath # <<>>
                          /\ srcCat.m_header.SearchPaths # <<>>
            marker == ExpectedBase(srcCat) \o Components(srcCat.m_header.WPHeader)
        IN  /\ ~configured => srcRet = <<FALSE>>
            /\ (configured /\ AllPathsExist(srcCat) /\ srcCat.m_header.WPHeader # <<>>) =>
                   srcRet = <<marker \in srcDisk.files>>

C14_Witness ==
    /\ srcOp = "HasSourcesAvailable"
    /\ srcCat.m_header.WPHeader # <<>>
    /\ Len(srcCat.m_header.SearchPaths) = 1
    /\ AllPathsExist(srcCat)
    /\ EndsWithDesktop(GetSourcesRootPath(srcDisk, srcCat))
    /\ srcRet = <<TRUE>>


====
